---- MODULE Spec2Model ----
\* Domain primitives of gobrick (package types) and their structured error
\* (package msg): validating constructors and the JSON / text / database
\* codecs of Phone, Email, Currency, Day, Version and UUID.
\*
\* A Go string is modelled as a sequence of characters, each character a
\* one-element TLA+ string; a multi-byte character is a token with its own
\* byte width.  One behaviour exercises the primitive named by `subject`;
\* the receivers of the other primitives stay at their zero value.
EXTENDS Integers, Sequences, FiniteSets, TLC

VARIABLES
    subject,    \* the primitive type exercised in this behaviour
    phone,      \* a variable of type Phone
    email,      \* a variable of type Email
    currency,   \* a variable of type Currency
    day,        \* a variable of type Day
    version,    \* a variable of type Version
    uuid,       \* a variable of type UUID
    nuuid,      \* a variable of type NullableUUID: [UUID, Valid]
    ntime,      \* a variable of type NullableTime: [Time, Valid]
    createdAt,  \* a variable of type CreatedAt
    updatedAt,  \* a variable of type UpdatedAt
    errs,       \* the MessageError objects allocated, by address
    call,       \* the last call made: [op, ...arguments]
    ret,        \* the value returned by the last call (besides the error)
    err,        \* the error returned by the last call
    built,      \* history: the subject's variable holds a value obtained from
                \* its validating constructor (and, for Version, Increments)
    incs,       \* history: Increment calls made since `version` was last
                \* assigned by NewVersion or by a decoder
    recovered   \* what recover() gives after the last call: the value
                \* handed to panic, nil when the call returned

vars == <<subject, phone, email, currency, day, version, uuid, nuuid, ntime,
          createdAt, updatedAt, errs, call, ret, err, built, incs,
          recovered>>

----------------------------------------------------------------------------
\* Bounds of the model

MaxPad == 1          \* leading / trailing blanks put around a raw input
MaxIncrements == 3   \* Increment calls in one behaviour
MaxDayInput == 32    \* integers offered to NewDay and the Day decoders

----------------------------------------------------------------------------
\* Text helpers (Go strings, package strings / unicode/utf8 / regexp)

Digit == {"0", "1", "2", "3", "4", "5", "6", "7", "8", "9"}
Lower == {"a", "b", "c", "d", "e", "f", "g", "h", "i", "j", "k", "l", "m",
          "n", "o", "p", "q", "r", "s", "t", "u", "v", "w", "x", "y", "z"}
Upper == {"A", "B", "C", "D", "E", "F", "G", "H", "I", "J", "K", "L", "M",
          "N", "O", "P", "Q", "R", "S", "T", "U", "V", "W", "X", "Y", "Z"}
Space == {" ", "\t"}
\* a two-byte character (U+00E9)
EAcute == "U+00E9"
\* the grave accent (U+0060)
Backtick == "U+0060"

Rep(c, n) == [i \in 1..n |-> c]

ByteWidth(c) == IF c = EAcute THEN 2 ELSE 1

\* len(s): the number of bytes
ByteLen(s) == Len(s) + Cardinality({i \in 1..Len(s) : ByteWidth(s[i]) = 2})

RuneCountInString(s) == Len(s)

IsDigit(c) == c \in Digit
IsSpace(c) == c \in Space

RECURSIVE TrimLeft(_)
TrimLeft(s) == IF s # <<>> /\ IsSpace(Head(s)) THEN TrimLeft(Tail(s)) ELSE s

RECURSIVE TrimRight(_)
TrimRight(s) ==
    IF s # <<>> /\ IsSpace(s[Len(s)]) THEN TrimRight(SubSeq(s, 1, Len(s) - 1)) ELSE s

TrimSpace(s) == TrimRight(TrimLeft(s))

HasPrefix(s, p) == Len(s) >= Len(p) /\ SubSeq(s, 1, Len(p)) = p

UpperOf == [c \in Lower |->
    CASE c = "a" -> "A" [] c = "b" -> "B" [] c = "c" -> "C" [] c = "d" -> "D"
      [] c = "e" -> "E" [] c = "f" -> "F" [] c = "g" -> "G" [] c = "h" -> "H"
      [] c = "i" -> "I" [] c = "j" -> "J" [] c = "k" -> "K" [] c = "l" -> "L"
      [] c = "m" -> "M" [] c = "n" -> "N" [] c = "o" -> "O" [] c = "p" -> "P"
      [] c = "q" -> "Q" [] c = "r" -> "R" [] c = "s" -> "S" [] c = "t" -> "T"
      [] c = "u" -> "U" [] c = "v" -> "V" [] c = "w" -> "W" [] c = "x" -> "X"
      [] c = "y" -> "Y" [] c = "z" -> "Z"]

ToUpperChar(c) == IF c \in Lower THEN UpperOf[c] ELSE c
ToLowerChar(c) ==
    IF c \in Upper THEN CHOOSE l \in Lower : UpperOf[l] = c ELSE c

ToUpper(s) == [i \in 1..Len(s) |-> ToUpperChar(s[i])]
ToLower(s) == [i \in 1..Len(s) |-> ToLowerChar(s[i])]

----------------------------------------------------------------------------
\* package msg: the structured error

CodeInvalid == "invalid_input"
CodeInternal == "internal_error"
CodeConflict == "conflict"
CodeNotFound == "not_found"
CodeUnauthorized == "unauthorized"
CodeForbidden == "forbidden"
CodeDomainViolation == "domain_violation"

\* the nil error
NoError == [type |-> "nil"]

\* context values: a string or an integer
CtxStr(s) == [str |-> s]
CtxInt(n) == [int |-> n]

\* a MessageError object; Details holds the addresses of the children (a
\* []*MessageError), empty for the nil slice the constructors leave.  A nil
\* Context reads as the empty map and is the empty function here
NewMessageError(cause, message, code, context) ==
    [type |-> "MessageError", Err |-> cause, Message |-> message,
     Code |-> code, Context |-> context, Details |-> <<>>]

NewValidationError(cause, context, message) ==
    NewMessageError(cause, message, CodeInvalid, context)

NewInternalError(cause, context) ==
    NewMessageError(cause, "An unexpected internal error occurred.", CodeInternal, context)

\* a plain error value made by fmt.Errorf or by a library
PlainError(text) == [type |-> "error", text |-> text]

\* if err != nil { panic(err) }; return v -- the body of every Must
\* constructor, r the pair its fallible constructor returned: [val, panic],
\* panic the value handed to panic, nil when the call returns
panicIfError(r) ==
    IF r.err # NoError THEN [val |-> [t |-> "none"], panic |-> r.err]
    ELSE [val |-> r.val, panic |-> NoError]

\* the mutant: the map is made anew on every call
WithContext_FreshMap(e, key, value) ==
    [e EXCEPT !.Context = (key :> value)]

\* the object e points to after e.WithContext(key, value); the call returns
\* the pointer it was given
WithContext(e, key, value) ==
    [e EXCEPT !.Context = (key :> value) @@ @]

\* the pairs offered to WithContext
ContextEntries ==
    {<<"key1", CtxStr("value1")>>, <<"key1", CtxStr("newValue1")>>,
     <<"key2", CtxInt(123)>>}

ErrorCodes ==
    {CodeConflict, CodeInvalid, CodeNotFound, CodeInternal, CodeUnauthorized,
     CodeForbidden, CodeDomainViolation, "SOME_NEW_CODE", ""}

\* the objects a program has built before the calls: one error of each
\* category, a validation error with two details, and details three deep
SampleErrorHeaps ==
    { <<NewMessageError(NoError, "test", c, <<>>)>> : c \in ErrorCodes }
    \cup
    { << NewValidationError(NoError, [field |-> CtxStr("email")],
                            "must be a valid email"),
         NewValidationError(NoError, [field |-> CtxStr("password")],
                            "must be at least 10 chars"),
         [NewMessageError(PlainError("validation failed"),
                          "One or more fields are invalid", CodeInvalid,
                          [form |-> CtxStr("registration")])
            EXCEPT !.Details = <<1, 2>>] >>,
      << NewMessageError(PlainError("db connection failed"),
                         "Could not process request", CodeInternal,
                         [request_id |-> CtxStr("abc-123")]),
         [NewMessageError(NoError, "No such order", CodeNotFound, <<>>)
            EXCEPT !.Details = <<1>>],
         [NewMessageError(NoError, "Order was changed", CodeConflict, <<>>)
            EXCEPT !.Details = <<2, 1>>] >> }

\* the mutant: forbidden answers like unauthorized
HTTPStatus_ForbiddenAs401(e) ==
    CASE e.Code = CodeConflict -> 409
      [] e.Code = CodeInvalid -> 400
      [] e.Code = CodeNotFound -> 404
      [] e.Code = CodeUnauthorized -> 401
      [] e.Code = CodeForbidden -> 401
      [] e.Code = CodeInternal -> 500
      [] OTHER -> 500

HTTPStatus(e) ==
    CASE e.Code = CodeConflict -> 409
      [] e.Code = CodeInvalid -> 400
      [] e.Code = CodeNotFound -> 404
      [] e.Code = CodeUnauthorized -> 401
      [] e.Code = CodeForbidden -> 403
      [] e.Code = CodeInternal -> 500
      [] OTHER -> 500

\* the mutant: the text of the wrapped cause is put into the message
ErrorResponse_ShowsCause(e, details) ==
    [StatusCode |-> HTTPStatus(e),
     Message |-> IF e.Err = NoError THEN e.Message ELSE "cause",
     Code |-> e.Code, Context |-> e.Context, Details |-> details]

\* the ErrorResponse of the error e, given the responses of its details
ErrorResponse(e, details) ==
    [StatusCode |-> HTTPStatus(e), Message |-> e.Message, Code |-> e.Code,
     Context |-> e.Context, Details |-> details]

\* the mutant: the children are projected without their own children
ToResponse_OneLevel(heap, a) ==
    LET e == heap[a] IN
    [StatusCode |-> HTTPStatus(e), Message |-> e.Message, Code |-> e.Code,
     Context |-> e.Context,
     Details |-> [i \in 1..Len(e.Details) |->
                    LET d == heap[e.Details[i]] IN
                    [StatusCode |-> HTTPStatus(d), Message |-> d.Message,
                     Code |-> d.Code, Context |-> d.Context, Details |-> <<>>]]]

\* the ErrorResponse of the object at address a of the heap
RECURSIVE ToResponse(_, _)
ToResponse(heap, a) ==
    LET e == heap[a] IN
    ErrorResponse(e, [i \in 1..Len(e.Details) |-> ToResponse(heap, e.Details[i])])

----------------------------------------------------------------------------
\* encoding/json, restricted to the documents the codecs exchange: a JSON
\* document is the character sequence of its text

Quote == "\""
Backslash == "\\"
JSONNull == <<"n", "u", "l", "l">>

EscapeChar(c) ==
    CASE c = Quote -> <<Backslash, Quote>>
      [] c = Backslash -> <<Backslash, Backslash>>
      [] c = "\t" -> <<Backslash, "t">>
      [] c = "&" -> <<Backslash, "u", "0", "0", "2", "6">>
      [] OTHER -> <<c>>

RECURSIVE Escape(_)
Escape(s) ==
    IF s = <<>> THEN <<>>
    ELSE IF Len(s) = 1 THEN EscapeChar(s[1])
    ELSE LET h == Len(s) \div 2
         IN Escape(SubSeq(s, 1, h)) \o Escape(SubSeq(s, h + 1, Len(s)))

\* json.Marshal of a Go string
JSONMarshalString(s) == <<Quote>> \o Escape(s) \o <<Quote>>

\* the body of a JSON string literal: [ok, s]; the characters before the
\* first backslash stand for themselves
RECURSIVE Unescape(_)
Unescape(b) ==
    LET esc == {i \in 1..Len(b) : b[i] = Backslash}
        first == IF esc = {} THEN Len(b) + 1
                 ELSE CHOOSE i \in esc : \A j \in esc : i <= j
        plain == SubSeq(b, 1, first - 1)
        rest == SubSeq(b, first, Len(b))
    IN  IF \E i \in 1..Len(plain) : plain[i] \in {Quote, "\t"}
            THEN [ok |-> FALSE, s |-> <<>>]
        ELSE IF rest = <<>> THEN [ok |-> TRUE, s |-> plain]
        ELSE IF Len(rest) >= 2 /\ rest[2] \in {Quote, Backslash, "t"} THEN
            LET r == Unescape(SubSeq(rest, 3, Len(rest)))
                c == IF rest[2] = "t" THEN "\t" ELSE rest[2]
            IN [ok |-> r.ok, s |-> plain \o <<c>> \o r.s]
        ELSE IF Len(rest) >= 6 /\ SubSeq(rest, 2, 6) = <<"u", "0", "0", "2", "6">> THEN
            LET r == Unescape(SubSeq(rest, 7, Len(rest)))
            IN [ok |-> r.ok, s |-> plain \o <<"&">> \o r.s]
        ELSE [ok |-> FALSE, s |-> <<>>]

\* json.Unmarshal(data, &s) with s a fresh Go string: null leaves s empty
\* and reports no error, a string literal is stored unescaped, any other
\* document is an error
JSONUnmarshalString(data) ==
    IF data = JSONNull THEN [ok |-> TRUE, s |-> <<>>]
    ELSE IF Len(data) >= 2 /\ data[1] = Quote /\ data[Len(data)] = Quote
        THEN Unescape(SubSeq(data, 2, Len(data) - 1))
    ELSE [ok |-> FALSE, s |-> <<>>]

----------------------------------------------------------------------------
\* database/sql/driver values offered to Scan and returned by Value

SrcNil == [t |-> "nil"]
SrcString(s) == [t |-> "string", s |-> s]
SrcBytes(s) == [t |-> "[]uint8", s |-> s]
SrcInt64(n) == [t |-> "int64", n |-> n]
SrcInt(n) == [t |-> "int", n |-> n]

\* fmt.Sprintf("%T", src)
TypeName(src) == IF src.t = "nil" THEN "<nil>" ELSE src.t

----------------------------------------------------------------------------
\* Phone

DefaultCountryCode == <<"5", "5">>
CountryCodeLength == 2
DDDLength == 2
LocalPhoneNumberLength == 9
NormalizedPhoneLength == CountryCodeLength + DDDLength + LocalPhoneNumberLength
MaxRawPhoneInputLength == 30


\* normalizePhone removing only the first character that is not a digit
normalizePhone_FirstOnly(phoneStr) ==
    LET nd == {i \in 1..Len(phoneStr) : ~IsDigit(phoneStr[i])} IN
    IF nd = {} THEN phoneStr
    ELSE LET f == CHOOSE i \in nd : \A j \in nd : i <= j
         IN SubSeq(phoneStr, 1, f - 1) \o SubSeq(phoneStr, f + 1, Len(phoneStr))

\* nonNumericRegexPattern.ReplaceAllString(phoneStr, ""): \D is every
\* character that is not an ASCII digit
normalizePhone(phoneStr) == SelectSeq(phoneStr, IsDigit)


\* validateAndPrefixNormalizedPhone without its final country-code check
validateAndPrefix_NoPrefixCheck(normalizedNum, originalInputForErrorContext) ==
    LET tryPrefix == ByteLen(normalizedNum) = DDDLength + LocalPhoneNumberLength
        finalNum == IF tryPrefix THEN DefaultCountryCode \o normalizedNum
                    ELSE normalizedNum
    IN  IF tryPrefix /\ HasPrefix(normalizedNum, DefaultCountryCode) THEN
            [val |-> <<>>,
             err |-> NewValidationError(NoError,
                 [input_phone |-> CtxStr(originalInputForErrorContext),
                  normalized_phone |-> CtxStr(normalizedNum)],
                 "Invalid phone number format: 11-digit number starting with country code is ambiguous or incomplete.")]
        ELSE IF ByteLen(finalNum) # NormalizedPhoneLength THEN
            [val |-> <<>>,
             err |-> NewValidationError(NoError,
                 [input_phone |-> CtxStr(originalInputForErrorContext),
                  normalized_phone_after_prefix_attempt |-> CtxStr(finalNum),
                  expected_length |-> CtxInt(NormalizedPhoneLength),
                  actual_length |-> CtxInt(ByteLen(finalNum))],
                 "Normalized phone number must have 13 digits.")]
        ELSE [val |-> finalNum, err |-> NoError]

\* validateAndPrefixNormalizedPhone prefixing an 11-digit number that
\* already starts with the country code instead of rejecting it
validateAndPrefix_Guessing(normalizedNum, originalInputForErrorContext) ==
    LET tryPrefix == ByteLen(normalizedNum) = DDDLength + LocalPhoneNumberLength
        finalNum == IF tryPrefix THEN DefaultCountryCode \o normalizedNum
                    ELSE normalizedNum
    IN  IF ByteLen(finalNum) # NormalizedPhoneLength THEN
            [val |-> <<>>,
             err |-> NewValidationError(NoError,
                 [input_phone |-> CtxStr(originalInputForErrorContext),
                  normalized_phone_after_prefix_attempt |-> CtxStr(finalNum),
                  expected_length |-> CtxInt(NormalizedPhoneLength),
                  actual_length |-> CtxInt(ByteLen(finalNum))],
                 "Normalized phone number must have 13 digits.")]
        ELSE IF ~HasPrefix(finalNum, DefaultCountryCode) THEN
            [val |-> <<>>,
             err |-> NewValidationError(NoError,
                 [input_phone |-> CtxStr(originalInputForErrorContext),
                  normalized_phone |-> CtxStr(finalNum),
                  expected_prefix |-> CtxStr(DefaultCountryCode)],
                 "Normalized 13-digit phone number must start with country code.")]
        ELSE [val |-> finalNum, err |-> NoError]

validateAndPrefixNormalizedPhone(normalizedNum, originalInputForErrorContext) ==
    LET numLen0 == ByteLen(normalizedNum)
        tryPrefix == numLen0 = DDDLength + LocalPhoneNumberLength
        finalNum == IF tryPrefix THEN DefaultCountryCode \o normalizedNum
                    ELSE normalizedNum
        numLen == ByteLen(finalNum)
    IN  IF tryPrefix /\ HasPrefix(normalizedNum, DefaultCountryCode) THEN
            [val |-> <<>>,
             err |-> NewValidationError(NoError,
                 [input_phone |-> CtxStr(originalInputForErrorContext),
                  normalized_phone |-> CtxStr(normalizedNum)],
                 "Invalid phone number format: 11-digit number starting with country code is ambiguous or incomplete.")]
        ELSE IF numLen # NormalizedPhoneLength THEN
            [val |-> <<>>,
             err |-> NewValidationError(NoError,
                 [input_phone |-> CtxStr(originalInputForErrorContext),
                  normalized_phone_after_prefix_attempt |-> CtxStr(finalNum),
                  expected_length |-> CtxInt(NormalizedPhoneLength),
                  actual_length |-> CtxInt(numLen)],
                 "Normalized phone number must have 13 digits.")]
        ELSE IF ~HasPrefix(finalNum, DefaultCountryCode) THEN
            [val |-> <<>>,
             err |-> NewValidationError(NoError,
                 [input_phone |-> CtxStr(originalInputForErrorContext),
                  normalized_phone |-> CtxStr(finalNum),
                  expected_prefix |-> CtxStr(DefaultCountryCode)],
                 "Normalized 13-digit phone number must start with country code.")]
        ELSE [val |-> finalNum, err |-> NoError]

NewPhone_ValidatesFirst(phoneStr) ==
    LET trimmedInput == TrimSpace(phoneStr)
        r == validateAndPrefixNormalizedPhone(normalizePhone(trimmedInput), phoneStr)
    IN  IF trimmedInput = <<>> THEN
            [val |-> <<>>,
             err |-> NewValidationError(NoError,
                 [input_phone |-> CtxStr(phoneStr)],
                 "Phone number cannot be empty.")]
        ELSE IF r.err # NoError
                  /\ RuneCountInString(trimmedInput) > MaxRawPhoneInputLength THEN
            [val |-> <<>>,
             err |-> NewValidationError(NoError,
                 [max_length |-> CtxInt(MaxRawPhoneInputLength),
                  input_phone |-> CtxStr(phoneStr)],
                 "Raw phone input exceeds maximum length.")]
        ELSE r

NewPhone(phoneStr) ==
    LET trimmedInput == TrimSpace(phoneStr) IN
    IF trimmedInput = <<>> THEN
        [val |-> <<>>,
         err |-> NewValidationError(NoError,
             [input_phone |-> CtxStr(phoneStr)],
             "Phone number cannot be empty.")]
    ELSE IF RuneCountInString(trimmedInput) > MaxRawPhoneInputLength THEN
        [val |-> <<>>,
         err |-> NewValidationError(NoError,
             [max_length |-> CtxInt(MaxRawPhoneInputLength),
              input_phone |-> CtxStr(phoneStr)],
             "Raw phone input exceeds maximum length.")]
    ELSE validateAndPrefixNormalizedPhone(normalizePhone(trimmedInput), phoneStr)

\* the mutant: the error is dropped and the zero Phone returned
MustNewPhone_ReturnsZero(phoneStr) ==
    [val |-> NewPhone(phoneStr).val, panic |-> NoError]

MustNewPhone(phoneStr) == panicIfError(NewPhone(phoneStr))

Phone_IsEmpty(p) == p = <<>>

Phone_MarshalJSON(p) == JSONMarshalString(p)

\* the decoders return the new value of the receiver and the error
Phone_UnmarshalJSON(p, data) ==
    LET d == JSONUnmarshalString(data) IN
    IF ~d.ok THEN
        [self |-> p,
         err |-> NewValidationError(PlainError("json"),
             [input_json |-> CtxStr(data)],
             "Phone must be a valid JSON string.")]
    ELSE LET r == NewPhone(d.s) IN
        IF r.err # NoError THEN [self |-> p, err |-> r.err]
        ELSE [self |-> r.val, err |-> NoError]

Phone_MarshalText(p) == p

Phone_UnmarshalText(p, text) ==
    LET r == NewPhone(text) IN
    IF r.err # NoError THEN [self |-> p, err |-> r.err]
    ELSE [self |-> r.val, err |-> NoError]

Phone_Value(p) ==
    IF Phone_IsEmpty(p) THEN
        [val |-> SrcNil,
         err |-> NewValidationError(NoError, <<>>,
             "Attempted to save an empty or invalid Phone value to the database.")]
    ELSE [val |-> SrcString(p), err |-> NoError]

Phone_Scan(p, src) ==
    IF src.t = "nil" THEN
        [self |-> p,
         err |-> NewValidationError(NoError,
             [target_type |-> CtxStr("Phone")],
             "Scanned nil value for non-nullable Phone type from database.")]
    ELSE IF src.t \notin {"string", "[]uint8"} THEN
        [self |-> p,
         err |-> NewValidationError(NoError,
             [received_type |-> CtxStr(TypeName(src))],
             "Incompatible type for Phone scan. Expected string or []byte.")]
    ELSE
        LET phoneStr == src.s
            r == validateAndPrefixNormalizedPhone(normalizePhone(phoneStr), phoneStr)
        IN  IF r.err # NoError THEN
                [self |-> p,
                 err |-> WithContext(r.err, "scan_source_value_db", CtxStr(phoneStr))]
            ELSE [self |-> r.val, err |-> NoError]

\* raw phone texts: an optional country code, hyphens, the area code and
\* subscriber digits; some of them between blanks
PhoneCountryCodes == {<<>>, <<"5", "5">>, <<"5", "4">>}
PhoneBodies == {
    <<>>,
    <<"1", "2", "3", "4", "5", "6", "7", "8", "9">>,
    <<"6", "2", "9", "8", "2", "8", "7", "0", "0", "5", "3">>,
    <<"6", "2", "9", "8", "2", "8", "7", "0", "0", "5", "3", "1">>}
OtherPhoneBody == <<"1", "1", "9", "8", "7", "6", "5", "4", "3", "2", "1">>
PlainPhones ==
    { cc \o b : cc \in PhoneCountryCodes, b \in PhoneBodies }
        \cup { OtherPhoneBody, DefaultCountryCode \o OtherPhoneBody }
\* texts with as many hyphens as bring them to the maximum raw length, and
\* one more
LongPhones ==
    { cc \o Rep("-", MaxRawPhoneInputLength - Len(cc \o OtherPhoneBody) + k)
         \o OtherPhoneBody : cc \in {<<>>, DefaultCountryCode}, k \in 0..1 }
PaddedPhones ==
    { Rep(" ", l) \o s \o Rep(" ", l) :
        l \in 1..MaxPad,
        s \in {<<>>, OtherPhoneBody} \cup {t \in LongPhones : Len(t) = MaxRawPhoneInputLength} }
\* blanks only, beyond the maximum raw length; and texts of two-byte
\* characters around the digits, at the maximum raw length and one beyond
WidePhones ==
    { Rep(" ", MaxRawPhoneInputLength + 1) } \cup
    { DefaultCountryCode
         \o Rep(EAcute, MaxRawPhoneInputLength - Len(DefaultCountryCode \o OtherPhoneBody) + k)
         \o OtherPhoneBody : k \in 0..1 }
RawPhones == PlainPhones \cup LongPhones \cup PaddedPhones \cup WidePhones

PhoneJSONDocs ==
    { JSONMarshalString(s) : s \in RawPhones }
        \cup {JSONNull, <<"1", "2", "3">>, <<Quote, "5", "5">>}

PhoneSources ==
    { SrcString(s) : s \in RawPhones } \cup { SrcBytes(s) : s \in RawPhones }
        \cup {SrcNil, SrcInt(12345)}

----------------------------------------------------------------------------
\* Email

MaxEmailLength == 254

AlNum == Lower \cup Upper \cup Digit
EmailLocalChars ==
    AlNum \cup {".", "!", "#", "$", "%", "&", "'", "*", "+", "/", "=", "?",
                "^", "_", Backtick, "{", "|", "}", "~", "-"}
MaxLabelLength == 63

\* a domain: labels separated by ".", each of 1..63 characters, letters,
\* digits and inner hyphens
MatchDomain(d) ==
    /\ d # <<>>
    /\ d[1] \in AlNum
    /\ d[Len(d)] \in AlNum
    /\ \A j \in 1..Len(d) : d[j] \in AlNum \cup {"-", "."}
    /\ \A j \in 1..Len(d) :
          d[j] = "." => d[j - 1] \in AlNum /\ d[j + 1] \in AlNum
    /\ \A j \in 1..(Len(d) - MaxLabelLength) :
          \E k \in j..(j + MaxLabelLength) : d[k] = "."

\* emailRegexPattern.MatchString(s)
MatchEmail(s) ==
    \E i \in 1..Len(s) :
        /\ s[i] = "@"
        /\ i > 1
        /\ \A j \in 1..(i - 1) : s[j] \in EmailLocalChars
        /\ MatchDomain(SubSeq(s, i + 1, Len(s)))

validateEmail_StoresRaw(emailStr) ==
    LET normalizedEmail == ToLower(TrimSpace(emailStr)) IN
    IF normalizedEmail = <<>> \/ ByteLen(normalizedEmail) > MaxEmailLength
          \/ ~MatchEmail(normalizedEmail)
    THEN [val |-> <<>>,
          err |-> NewValidationError(NoError,
              [input_email |-> CtxStr(emailStr)],
              "Email address is invalid.")]
    ELSE [val |-> emailStr, err |-> NoError]

validateEmail(emailStr) ==
    LET normalizedEmail == ToLower(TrimSpace(emailStr)) IN
    IF normalizedEmail = <<>> THEN
        [val |-> <<>>,
         err |-> NewValidationError(NoError,
             [input_email |-> CtxStr(emailStr)],
             "Email address cannot be empty.")]
    ELSE IF ByteLen(normalizedEmail) > MaxEmailLength THEN
        [val |-> <<>>,
         err |-> NewValidationError(NoError,
             [length |-> CtxInt(ByteLen(normalizedEmail)),
              max_length |-> CtxInt(MaxEmailLength),
              input_email |-> CtxStr(emailStr)],
             "Email address exceeds maximum length.")]
    ELSE IF ~MatchEmail(normalizedEmail) THEN
        [val |-> <<>>,
         err |-> NewValidationError(NoError,
             [input_email |-> CtxStr(emailStr)],
             "Email address has an invalid format.")]
    ELSE [val |-> normalizedEmail, err |-> NoError]

NewEmail(emailStr) == validateEmail(emailStr)

MustNewEmail(emailStr) == panicIfError(NewEmail(emailStr))

Email_MarshalJSON(e) == JSONMarshalString(e)

Email_UnmarshalJSON(e, data) ==
    LET d == JSONUnmarshalString(data) IN
    IF ~d.ok THEN
        [self |-> e,
         err |-> NewValidationError(PlainError("json"),
             [input_json |-> CtxStr(data)],
             "Email must be a valid JSON string.")]
    ELSE LET r == validateEmail(d.s) IN
        IF r.err # NoError THEN [self |-> e, err |-> r.err]
        ELSE [self |-> r.val, err |-> NoError]

Email_MarshalText(e) == e

Email_UnmarshalText(e, text) ==
    LET r == validateEmail(text) IN
    IF r.err # NoError THEN [self |-> e, err |-> r.err]
    ELSE [self |-> r.val, err |-> NoError]

Email_Value(e) == [val |-> SrcString(e), err |-> NoError]

Email_Scan(e, src) ==
    IF src.t = "nil" THEN
        [self |-> e,
         err |-> NewValidationError(NoError,
             [target_type |-> CtxStr("Email")],
             "Scanned nil value for non-nullable Email type.")]
    ELSE IF src.t \notin {"string", "[]uint8"} THEN
        [self |-> e,
         err |-> NewValidationError(NoError,
             [received_type |-> CtxStr(TypeName(src))],
             "Incompatible type for Email. Expected string or []byte.")]
    ELSE
        LET emailStr == src.s
            r == validateEmail(emailStr)
        IN  IF r.err # NoError THEN
                [self |-> e,
                 err |-> WithContext(r.err, "scan_source_value", CtxStr(emailStr))]
            ELSE [self |-> r.val, err |-> NoError]

\* raw email texts
EmailCores == {
    <<>>,
    <<"a", "@", "b", ".", "c", "o">>,
    <<"A", "&", "z", "@", "B", "-", "9", ".", "C", "o">>,
    <<"a", "b", ".", "c", "o">>,
    <<"@", "b", ".", "c", "o">>,
    <<"a", "@">>,
    <<"a", "@", "-", "b", ".", "c", "o">>,
    <<EAcute, "@", "b", ".", "c", "o">>,
    Rep("a", MaxEmailLength - 5) \o <<"@", "b", ".", "c", "o">>,
    Rep("a", MaxEmailLength - 4) \o <<"@", "b", ".", "c", "o">>,
    <<"a", "@">> \o Rep("b", MaxLabelLength + 1) \o <<".", "c", "o">>}
RawEmails ==
    { Rep(" ", l) \o c \o Rep(" ", l) : l \in 0..MaxPad, c \in EmailCores }

EmailJSONDocs ==
    { JSONMarshalString(s) : s \in RawEmails }
        \cup {JSONNull, <<"1", "2", "3">>, <<Quote, "a">>}

EmailSources ==
    { SrcString(s) : s \in RawEmails } \cup { SrcBytes(s) : s \in RawEmails }
        \cup {SrcNil, SrcInt(12345)}

----------------------------------------------------------------------------
\* Currency

BRL == <<"B", "R", "L">>
USD == <<"U", "S", "D">>
EUR == <<"E", "U", "R">>

ErrInvalidCurrency == PlainError("invalid currency")

Currency_IsValid(c) == c \in {BRL, USD, EUR}

NewCurrency(value) ==
    LET c == ToUpper(value) IN
    IF ~Currency_IsValid(c) THEN [val |-> <<>>, err |-> ErrInvalidCurrency]
    ELSE [val |-> c, err |-> NoError]

Currency_IsEmpty(c) == c = <<>>

Currency_MarshalJSON(c) == JSONMarshalString(c)

Currency_UnmarshalJSON(c, data) ==
    LET d == JSONUnmarshalString(data) IN
    IF ~d.ok THEN [self |-> c, err |-> PlainError("json")]
    ELSE [self |-> d.s, err |-> NoError]

Currency_Value(c) ==
    IF Currency_IsEmpty(c) THEN [val |-> SrcNil, err |-> NoError]
    ELSE [val |-> SrcString(c), err |-> NoError]

Currency_Scan(c, src) ==
    IF src.t = "nil" THEN [self |-> <<>>, err |-> NoError]
    ELSE IF src.t \in {"string", "[]uint8"} THEN [self |-> src.s, err |-> NoError]
    ELSE [self |-> c, err |-> ErrInvalidCurrency]

RawCurrencies == {
    <<>>, BRL, USD, EUR,
    <<"b", "r", "l">>, <<"U", "s", "d">>, <<"e", "u", "r">>,
    <<"G", "B", "P">>, <<" ", "B", "R", "L">>, <<"B", "R">>}

CurrencyJSONDocs ==
    { JSONMarshalString(s) : s \in RawCurrencies }
        \cup {JSONNull, <<"1", "2", "3">>, <<Quote, "B">>}

CurrencySources ==
    { SrcString(s) : s \in RawCurrencies }
        \cup { SrcBytes(s) : s \in RawCurrencies } \cup {SrcNil, SrcInt(12345)}

----------------------------------------------------------------------------
\* Decimal numbers (strconv, JSON numbers)

DigitChars == <<"0", "1", "2", "3", "4", "5", "6", "7", "8", "9">>
DigitVal(c) == CHOOSE d \in 0..9 : DigitChars[d + 1] = c

RECURSIVE NatToStr(_)
NatToStr(n) ==
    IF n < 10 THEN <<DigitChars[n + 1]>>
    ELSE NatToStr(n \div 10) \o <<DigitChars[(n % 10) + 1]>>

\* strconv.Itoa / json.Marshal of an integer
Itoa(n) == IF n < 0 THEN <<"-">> \o NatToStr(-n) ELSE NatToStr(n)

AllDigits(s) == \A i \in 1..Len(s) : IsDigit(s[i])

\* the value of a digit sequence, negated when neg
RECURSIVE DigitsToInt(_, _)
DigitsToInt(s, neg) ==
    IF s = <<>> THEN 0
    ELSE LET front == DigitsToInt(SubSeq(s, 1, Len(s) - 1), neg)
             d == DigitVal(s[Len(s)])
         IN IF neg THEN front * 10 - d ELSE front * 10 + d

RECURSIVE StripZeros(_)
StripZeros(s) == IF Len(s) > 1 /\ Head(s) = "0" THEN StripZeros(Tail(s)) ELSE s

\* a <= b for digit sequences of the same length
RECURSIVE DigitsLE(_, _)
DigitsLE(a, b) ==
    IF a = <<>> THEN TRUE
    ELSE IF DigitVal(Head(a)) # DigitVal(Head(b))
        THEN DigitVal(Head(a)) < DigitVal(Head(b))
    ELSE DigitsLE(Tail(a), Tail(b))

MaxInt32Digits == <<"2", "1", "4", "7", "4", "8", "3", "6", "4", "7">>
MinInt32Digits == <<"2", "1", "4", "7", "4", "8", "3", "6", "4", "8">>

InInt32Range(digits, neg) ==
    LET m == StripZeros(digits) IN
    \/ Len(m) < Len(MaxInt32Digits)
    \/ Len(m) = Len(MaxInt32Digits)
        /\ DigitsLE(m, IF neg THEN MinInt32Digits ELSE MaxInt32Digits)

\* strconv.ParseInt(s, 10, 32): [ok, n]
ParseInt32(s) ==
    LET signed == s # <<>> /\ Head(s) \in {"+", "-"}
        neg == s # <<>> /\ Head(s) = "-"
        digits == IF signed THEN Tail(s) ELSE s
    IN  IF digits = <<>> \/ ~AllDigits(digits) \/ ~InInt32Range(digits, neg)
        THEN [ok |-> FALSE, n |-> 0]
        ELSE [ok |-> TRUE, n |-> DigitsToInt(digits, neg)]

\* json.Unmarshal(data, &i) with i a fresh Go int: null leaves i zero and
\* reports no error, an integer literal is stored, any other document is an
\* error (the documents of the model are within the range of int)
JSONUnmarshalInt(data) ==
    LET neg == data # <<>> /\ Head(data) = "-"
        digits == IF neg THEN Tail(data) ELSE data
    IN  IF data = JSONNull THEN [ok |-> TRUE, n |-> 0]
        ELSE IF digits = <<>> \/ ~AllDigits(digits)
                \/ (Len(digits) > 1 /\ Head(digits) = "0")
            THEN [ok |-> FALSE, n |-> 0]
        ELSE [ok |-> TRUE, n |-> DigitsToInt(digits, neg)]

----------------------------------------------------------------------------
\* Day

ErrInvalidDay == PlainError("day must be between 1 and 31")


\* NewDay with the upper bound off by one
NewDay_UpTo30(value) ==
    IF value < 1 \/ value > 30 THEN [val |-> 0, err |-> ErrInvalidDay]
    ELSE [val |-> value, err |-> NoError]

NewDay(value) ==
    IF value < 1 \/ value > 31 THEN [val |-> 0, err |-> ErrInvalidDay]
    ELSE [val |-> value, err |-> NoError]

Day_Int(d) == d

Day_MarshalJSON(d) == Itoa(Day_Int(d))

Day_UnmarshalJSON(d, data) ==
    LET r == JSONUnmarshalInt(data) IN
    IF ~r.ok THEN [self |-> d, err |-> PlainError("json")]
    ELSE [self |-> r.n, err |-> NoError]

Day_Value(d) == [val |-> SrcInt64(Day_Int(d)), err |-> NoError]

Day_Scan(d, src) ==
    IF src.t = "nil" THEN [self |-> 0, err |-> NoError]
    ELSE IF src.t = "int64" THEN [self |-> src.n, err |-> NoError]
    ELSE [self |-> d, err |-> PlainError("unsupported scan type for Day")]

DayInputs == (-1)..1 \cup {10, 15, 20} \cup 30..MaxDayInput

DayJSONDocs ==
    { Itoa(n) : n \in DayInputs }
        \cup {JSONNull, <<Quote, "7", Quote>>, <<"1", ".", "5">>, <<"0", "7">>}

DaySources ==
    { SrcInt64(n) : n \in DayInputs }
        \cup {SrcNil, SrcString(<<"7">>), SrcBytes(<<"7">>), SrcInt(7)}

----------------------------------------------------------------------------
\* Version

NewVersion == 1


\* Version.Increment with a value receiver: the caller's variable is not changed
Version_Increment_ValueReceiver(v) == v

Version_Increment(v) == v + 1

Version_Int(v) == v


\* Version.Previous clamping only the version 1
Version_Previous_NoClamp(v) == IF v = 1 THEN 0 ELSE v - 1

Version_Previous(v) == IF v <= 1 THEN 0 ELSE v - 1

Version_MarshalJSON(v) == Itoa(v)

\* the mutant: the document is decoded into the receiver itself
Version_UnmarshalJSON_IntoReceiver(v, data) ==
    LET r == JSONUnmarshalInt(data) IN
    IF data = JSONNull \/ ~r.ok THEN
        [self |-> 0,
         err |-> NewValidationError(PlainError("json"),
             [input_json |-> CtxStr(data), target_type |-> CtxStr("Version")],
             "Version must be a JSON number.")]
    ELSE [self |-> r.n, err |-> NoError]

Version_UnmarshalJSON(v, data) ==
    IF data = JSONNull THEN
        [self |-> v,
         err |-> NewValidationError(NoError,
             [input_json |-> CtxStr(JSONNull), target_type |-> CtxStr("Version")],
             "Version cannot be null (received JSON 'null').")]
    ELSE LET r == JSONUnmarshalInt(data) IN
        IF ~r.ok THEN
            [self |-> v,
             err |-> NewValidationError(PlainError("json"),
                 [input_json |-> CtxStr(data), target_type |-> CtxStr("Version")],
                 "Version must be a JSON number.")]
        ELSE [self |-> r.n, err |-> NoError]


\* Version.Value returning the Go int instead of an int64
Version_Value_Int(v) == [val |-> SrcInt(v), err |-> NoError]

Version_Value(v) == [val |-> SrcInt64(v), err |-> NoError]

\* an int64 source always fits the 64-bit int of Version
\* the width in bits of the Go int of the build
IntSizes == {32, 64}

\* an int64 beyond the 32-bit integers is carried by its decimal digits, and
\* so is a Version that holds one
SrcInt64Digits(digits, neg) == [t |-> "int64", digits |-> digits, neg |-> neg]
IsWide(x) == "digits" \in DOMAIN x
Int64Value(src) ==
    IF IsWide(src) THEN [digits |-> src.digits, neg |-> src.neg] ELSE src.n

\* s > int64(maxInt) || s < int64(minInt)
OutOfIntRange(src, intSize) ==
    /\ intSize = 32
    /\ IsWide(src)
    /\ ~InInt32Range(src.digits, src.neg)

Version_Scan(v, src, intSize) ==
    IF src.t = "nil" THEN
        [self |-> v,
         err |-> NewValidationError(NoError,
             [target_type |-> CtxStr("Version")],
             "Scanned nil value for non-nullable Version.")]
    ELSE IF src.t = "int64" THEN
        IF OutOfIntRange(src, intSize) THEN
            [self |-> v,
             err |-> NewValidationError(NoError,
                 [source_value |-> CtxInt(Int64Value(src))],
                 "Value from database is out of range for Version (int).")]
        ELSE [self |-> Int64Value(src), err |-> NoError]
    ELSE IF src.t = "[]uint8" THEN
        LET r == ParseInt32(src.s) IN
        IF ~r.ok THEN
            [self |-> v,
             err |-> NewValidationError(PlainError("strconv"),
                 [input_bytes |-> CtxStr(src.s)],
                 "Failed to convert []byte to int for Version.")]
        ELSE [self |-> r.n, err |-> NoError]
    ELSE
        [self |-> v,
         err |-> NewValidationError(NoError,
             [received_type |-> CtxStr(TypeName(src))],
             "Incompatible type for Version. Expected int64 or []byte.")]

VersionInputs == (-2)..MaxIncrements

VersionJSONDocs ==
    { Itoa(n) : n \in VersionInputs }
        \cup {JSONNull, <<Quote, "a", "b", "c", Quote>>}

\* sources at and beyond the ends of the 32-bit integers, in both forms
WideDigits == {
    <<"2", "1", "4", "7", "4", "8", "3", "6", "4", "8">>,
    <<"2", "1", "4", "7", "4", "8", "3", "6", "5", "7">>,
    <<"9", "2", "2", "3", "3", "7", "2", "0", "3", "6", "8", "5", "4", "7", "7", "5", "8", "0", "7">>}
WideVersionSources ==
    { SrcInt64Digits(d, FALSE) : d \in WideDigits }
        \cup { SrcBytes(d) : d \in WideDigits }
        \cup { SrcInt64Digits(<<"2", "1", "4", "7", "4", "8", "3", "6", "4", "9">>, TRUE),
               SrcBytes(<<"-", "2", "1", "4", "7", "4", "8", "3", "6", "4", "9">>),
               SrcInt64(2147483647), SrcBytes(MaxInt32Digits) }

VersionSources ==
    { SrcInt64(n) : n \in VersionInputs }
        \cup { SrcBytes(Itoa(n)) : n \in VersionInputs }
        \cup {SrcNil, SrcString(<<"8", "8">>), SrcBytes(<<"a", "b", "c">>),
              SrcBytes(<<>>), SrcBytes(<<"+", "3">>)}

----------------------------------------------------------------------------
\* UUID (github.com/google/uuid): a value is its 32 lowercase hex digits

HexLower == Digit \cup {"a", "b", "c", "d", "e", "f"}
HexDigit == HexLower \cup {"A", "B", "C", "D", "E", "F"}

Nil == Rep("0", 32)

\* uuid.UUID.String: the canonical 8-4-4-4-12 text
UUID_String(u) ==
    SubSeq(u, 1, 8) \o <<"-">> \o SubSeq(u, 9, 12) \o <<"-">>
        \o SubSeq(u, 13, 16) \o <<"-">> \o SubSeq(u, 17, 20) \o <<"-">>
        \o SubSeq(u, 21, 32)

UUID_IsNil(u) == u = Nil

UrnPrefix == <<"u", "r", "n", ":", "u", "u", "i", "d", ":">>

\* the 36-character form: hyphens at 9, 14, 19, 24 and hex digits elsewhere
ParseCanonical(b) ==
    IF /\ b[9] = "-" /\ b[14] = "-" /\ b[19] = "-" /\ b[24] = "-"
       /\ \A i \in (1..36) \ {9, 14, 19, 24} : b[i] \in HexDigit
    THEN [ok |-> TRUE,
          id |-> ToLower(SubSeq(b, 1, 8) \o SubSeq(b, 10, 13) \o SubSeq(b, 15, 18)
                         \o SubSeq(b, 20, 23) \o SubSeq(b, 25, 36))]
    ELSE [ok |-> FALSE, id |-> Nil]

\* uuid.Parse / uuid.ParseBytes: the form is chosen by the length alone
uuid_Parse(s) ==
    CASE ByteLen(s) = 36 -> ParseCanonical(s)
      [] ByteLen(s) = 36 + 9 ->
            IF ToLower(SubSeq(s, 1, 9)) = UrnPrefix
            THEN ParseCanonical(SubSeq(s, 10, 45))
            ELSE [ok |-> FALSE, id |-> Nil]
      [] ByteLen(s) = 36 + 2 -> ParseCanonical(SubSeq(s, 2, 37))
      [] ByteLen(s) = 32 ->
            IF \A i \in 1..32 : s[i] \in HexDigit
            THEN [ok |-> TRUE, id |-> ToLower(s)]
            ELSE [ok |-> FALSE, id |-> Nil]
      [] OTHER -> [ok |-> FALSE, id |-> Nil]

\* the two hex digits of the byte of an ASCII digit character
RECURSIVE HexOfDigits(_)
HexOfDigits(b) ==
    IF b = <<>> THEN <<>> ELSE <<"3", Head(b)>> \o HexOfDigits(Tail(b))

\* uuid.UUID.Scan into a zero uuid.UUID; 16-byte sources of the model are
\* made of ASCII digits
uuid_Scan(src) ==
    CASE src.t = "nil" -> [ok |-> TRUE, id |-> Nil]
      [] src.t = "string" ->
            IF src.s = <<>> THEN [ok |-> TRUE, id |-> Nil] ELSE uuid_Parse(src.s)
      [] src.t = "[]uint8" ->
            IF src.s = <<>> THEN [ok |-> TRUE, id |-> Nil]
            ELSE IF ByteLen(src.s) = 16 /\ AllDigits(src.s)
                THEN [ok |-> TRUE, id |-> HexOfDigits(src.s)]
            ELSE uuid_Parse(src.s)
      [] OTHER -> [ok |-> FALSE, id |-> Nil]

ParseUUID(s) ==
    LET r == uuid_Parse(s) IN
    IF ~r.ok THEN
        [val |-> Nil,
         err |-> NewValidationError(PlainError("uuid"),
             [input_string |-> CtxStr(s)],
             "Invalid UUID string format.")]
    ELSE [val |-> r.id, err |-> NoError]

MustParseUUID(s) == panicIfError(ParseUUID(s))

\* NewUUID, g the pair [ok, id] that uuid.NewV7 returned
NewUUID(g) ==
    IF ~g.ok THEN
        [val |-> Nil,
         err |-> NewInternalError(PlainError("uuid"),
             [operation |-> CtxStr("generate_v7_uuid")])]
    ELSE [val |-> g.id, err |-> NoError]

MustNewUUID(g) == panicIfError(NewUUID(g))

UUID_MarshalText(u) == UUID_String(u)

UUID_UnmarshalText(u, text) ==
    LET r == uuid_Parse(text) IN
    IF ~r.ok THEN
        [self |-> u,
         err |-> NewValidationError(PlainError("uuid"),
             [input_text |-> CtxStr(text)],
             "Invalid text representation for UUID.")]
    ELSE [self |-> r.id, err |-> NoError]

\* the mutant: the nil sentinel is stored as its text like any other
UUID_Value_AlwaysText(u) == [val |-> SrcString(UUID_String(u)), err |-> NoError]

UUID_Value(u) ==
    IF UUID_IsNil(u) THEN [val |-> SrcNil, err |-> NoError]
    ELSE [val |-> SrcString(UUID_String(u)), err |-> NoError]

UUID_Scan(u, src) ==
    LET r == uuid_Scan(src) IN
    IF ~r.ok THEN
        [self |-> u,
         err |-> NewValidationError(PlainError("uuid"),
             [source_type |-> CtxStr(TypeName(src))],
             "Failed to scan database value into UUID.")]
    ELSE [self |-> r.id, err |-> NoError]

----------------------------------------------------------------------------
\* NullableUUID: the pair [UUID, Valid] of the embedded uuid.NullUUID

NewNullableUUID(id, valid) == [UUID |-> id, Valid |-> valid]
NewNullUUID == [UUID |-> Nil, Valid |-> FALSE]

NullableUUID_IsValid(nu) == nu.Valid /\ nu.UUID # Nil

\* the pair (UUID, bool) GetUUID returns
NullableUUID_GetUUID(nu) ==
    IF ~nu.Valid THEN [id |-> Nil, ok |-> FALSE]
    ELSE [id |-> nu.UUID, ok |-> TRUE]

\* json.Marshal of a UUID goes through its MarshalText
NullableUUID_MarshalJSON(nu) ==
    IF ~nu.Valid THEN JSONNull
    ELSE JSONMarshalString(UUID_MarshalText(nu.UUID))

\* json.Unmarshal into the temporary UUID hands the body of a JSON string
\* to UUID.UnmarshalText and rejects any other document
NullableUUID_UnmarshalJSON(nu, data) ==
    IF data = JSONNull THEN [self |-> NewNullUUID, err |-> NoError]
    ELSE LET d == JSONUnmarshalString(data)
             r == UUID_UnmarshalText(Nil, d.s)
         IN  IF ~d.ok \/ r.err # NoError THEN
                 [self |-> [nu EXCEPT !.Valid = FALSE],
                  err |-> NewValidationError(
                      IF d.ok THEN r.err ELSE PlainError("json"),
                      [input_json |-> CtxStr(data),
                       target_type |-> CtxStr("NullableUUID")],
                      "NullableUUID must be a valid JSON UUID string or 'null'.")]
             ELSE [self |-> [UUID |-> r.self, Valid |-> TRUE], err |-> NoError]

SampleUUIDs == {
    <<"0", "1", "8", "f", "4", "e", "2", "a", "7", "b", "3", "c", "7", "d", "9", "e",
      "8", "a", "1", "b", "0", "1", "2", "3", "4", "5", "6", "7", "8", "9", "a", "b">>,
    <<"0", "1", "9", "0", "0", "0", "0", "0", "0", "0", "0", "0", "7", "0", "0", "0",
      "8", "0", "0", "0", "0", "0", "0", "0", "0", "0", "0", "0", "0", "0", "0", "1">>,
    Nil}

\* what uuid.NewV7 can give: a version 7 identifier, or the error of the
\* random source
NewV7Outcomes ==
    { [ok |-> TRUE, id |-> u] : u \in SampleUUIDs \ {Nil} }
        \cup {[ok |-> FALSE, id |-> Nil]}

RawUUIDs ==
    { UUID_String(u) : u \in SampleUUIDs }
        \cup { ToUpper(UUID_String(u)) : u \in SampleUUIDs }
        \cup { <<"{">> \o UUID_String(u) \o <<"}">> : u \in SampleUUIDs }
        \cup { UrnPrefix \o UUID_String(u) : u \in SampleUUIDs }
        \cup SampleUUIDs
        \cup { <<"g">> \o Tail(UUID_String(u)) : u \in SampleUUIDs }
        \cup { Rep("0", 8) \o <<"x">> \o Rep("0", 27),
               <<"n", "o", "t", "-", "a", "-", "u", "u", "i", "d">>,
               <<>>,
               Rep("1", 16) }

UUIDSources ==
    { SrcString(s) : s \in RawUUIDs } \cup { SrcBytes(s) : s \in RawUUIDs }
        \cup {SrcNil, SrcInt(12345)}

----------------------------------------------------------------------------
\* package time: a time.Time is its civil date and clock reading together
\* with the offset east of UTC, in minutes, of the zone it is read in

\* time.Date
Date(y, mo, d, h, mi, s, ns, off) ==
    [year |-> y, month |-> mo, day |-> d, hour |-> h, min |-> mi, sec |-> s,
     nsec |-> ns, off |-> off]

\* time.Time{}
ZeroTime == Date(1, 1, 1, 0, 0, 0, 0, 0)

isLeap(y) == y % 4 = 0 /\ (y % 100 # 0 \/ y % 400 = 0)

daysIn(m, y) ==
    IF m = 2 THEN (IF isLeap(y) THEN 29 ELSE 28)
    ELSE IF m \in {4, 6, 9, 11} THEN 30 ELSE 31

\* the days from 0001-01-01 to the calendar day of t (years from 1 on)
AbsDays(t) ==
    LET y == t.year - 1
        before == <<0, 31, 59, 90, 120, 151, 181, 212, 243, 273, 304, 334>>
    IN  365 * y + (y \div 4) - (y \div 100) + (y \div 400)
            + before[t.month]
            + (IF t.month > 2 /\ isLeap(t.year) THEN 1 ELSE 0)
            + t.day - 1

\* the minute of the day of t when read in UTC; it leaves 0..1439 when the
\* zone moves the instant to another calendar day
UTCMinute(t) == t.hour * 60 + t.min - t.off

\* Time.Equal: the same instant, whatever the zones
Time_Equal(a, b) ==
    LET dd == AbsDays(a) - AbsDays(b) IN
    /\ dd \in (-3)..3
    /\ dd * 1440 + UTCMinute(a) - UTCMinute(b) = 0
    /\ a.sec = b.sec /\ a.nsec = b.nsec

\* Time.IsZero: the instant January 1, year 1, 00:00:00 UTC
Time_IsZero(t) == Time_Equal(t, ZeroTime)

\* a layout of the shape date, separator, clock, zone; every such layout
\* accepts a fraction after the seconds, "frac" tells whether it prints one
Layout(sep, frac, zone) == [sep |-> sep, frac |-> frac, zone |-> zone]

\* the character at position i of value, "end" past its end
CharAt(value, i) == IF i <= Len(value) THEN value[i] ELSE "end"

DigitAt(value, i) == CharAt(value, i) \in Digit

NumberAt(value, i, j) == DigitsToInt(SubSeq(value, i, j), FALSE)

\* what time.Parse gives when the text does not fit
ParseFailed == [ok |-> FALSE, t |-> ZeroTime, strict |-> FALSE]

\* the date 2006-01-02 and the separator after it
dateShapeOk(layout, value) ==
    /\ \A i \in {1, 2, 3, 4, 6, 7, 9, 10} : DigitAt(value, i)
    /\ CharAt(value, 5) = "-" /\ CharAt(value, 8) = "-"
    /\ CharAt(value, 11) = layout.sep

\* the clock 15:04:05 whose hour ends at position p (one or two digits)
clockShapeOk(value, p) ==
    /\ DigitAt(value, 12)
    /\ CharAt(value, p + 1) = ":" /\ DigitAt(value, p + 2) /\ DigitAt(value, p + 3)
    /\ CharAt(value, p + 4) = ":" /\ DigitAt(value, p + 5) /\ DigitAt(value, p + 6)

\* the position of the last digit of the fraction that follows the seconds
\* ending at q, or q when no fraction follows
fractionEnd(value, q) ==
    IF CharAt(value, q + 1) \in {".", ","} /\ DigitAt(value, q + 2)
    THEN CHOOSE i \in (q + 2)..Len(value) :
            /\ \A j \in (q + 2)..i : DigitAt(value, j)
            /\ ~DigitAt(value, i + 1)
    ELSE q

\* the nanoseconds of the fraction between q and fe (nine digits are kept)
fractionNanos(value, q, fe) ==
    IF fe = q THEN 0
    ELSE LET last == IF fe > q + 10 THEN q + 10 ELSE fe
         IN  NumberAt(value, q + 2, last) * (10 ^ (9 - (last - q - 1)))

\* the offset, in minutes east of UTC, of a zone given by its hours, its
\* minutes and its sign
zoneOffset(zh, zm, sgn) ==
    [ok |-> TRUE, off |-> sgn * (zh * 60 + zm), strict |-> zh <= 23 /\ zm <= 59]

\* the zone that starts at position z, read by the layout's zone element:
\* [ok, off, strict], strict telling that it is within 23:59
zoneAt(layout, value, z) ==
    LET zl == Len(value) - z + 1
        isZ == zl = 1 /\ CharAt(value, z) = "Z"
        signed == /\ CharAt(value, z) \in {"+", "-"}
                  /\ DigitAt(value, z + 1) /\ DigitAt(value, z + 2)
        colon == /\ zl = 6 /\ signed /\ CharAt(value, z + 3) = ":"
                 /\ DigitAt(value, z + 4) /\ DigitAt(value, z + 5)
        plain == zl = 5 /\ signed /\ DigitAt(value, z + 3) /\ DigitAt(value, z + 4)
        short == zl = 3 /\ signed
        zoneOk == CASE layout.zone = "Z07:00" -> isZ \/ colon
                    [] layout.zone = "-07:00" -> colon
                    [] layout.zone = "Z0700" -> isZ \/ plain
                    [] layout.zone = "-07" -> short
                    [] OTHER -> zl = 0
    IN  IF ~zoneOk THEN [ok |-> FALSE, off |-> 0, strict |-> FALSE]
        ELSE IF zl <= 1 THEN [ok |-> TRUE, off |-> 0, strict |-> TRUE]
        ELSE zoneOffset(NumberAt(value, z + 1, z + 2),
                        IF zl = 6 THEN NumberAt(value, z + 4, z + 5)
                        ELSE IF zl = 5 THEN NumberAt(value, z + 3, z + 4) ELSE 0,
                        IF CharAt(value, z) = "-" THEN -1 ELSE 1)

\* the fields are in range: the last step of time.Parse
timeInRange(t, strict) ==
    IF /\ t.month \in 1..12
       /\ t.day \in 1..daysIn(t.month, t.year)
       /\ t.hour <= 23 /\ t.min <= 59 /\ t.sec <= 59
    THEN [ok |-> TRUE, t |-> t, strict |-> strict]
    ELSE ParseFailed

\* the text has the layout's shape, its hour ends at p, its fraction at fe
\* and its zone is zone
timeOfFields(value, p, fe, zone) ==
    IF ~zone.ok THEN ParseFailed
    ELSE timeInRange(
            Date(NumberAt(value, 1, 4), NumberAt(value, 6, 7), NumberAt(value, 9, 10),
                 NumberAt(value, 12, p), NumberAt(value, p + 2, p + 3),
                 NumberAt(value, p + 5, p + 6), fractionNanos(value, p + 6, fe),
                 zone.off),
            p = 13 /\ (fe > p + 6 => CharAt(value, p + 7) = ".") /\ zone.strict)

time_ParseFrom(layout, value, p) ==
    IF dateShapeOk(layout, value) /\ clockShapeOk(value, p)
    THEN timeOfFields(value, p, fractionEnd(value, p + 6),
                      zoneAt(layout, value, fractionEnd(value, p + 6) + 1))
    ELSE ParseFailed

\* time.Parse(layout, value): [ok, t, strict]; strict tells that the text
\* also meets RFC 3339 to the letter (two-digit hour, period before the
\* fraction, zone within 23:59), as the JSON decoder of time.Time demands
time_Parse(layout, value) ==
    time_ParseFrom(layout, value, IF DigitAt(value, 13) THEN 13 ELSE 12)

RFC3339 == Layout("T", FALSE, "Z07:00")
RFC3339Nano == Layout("T", TRUE, "Z07:00")

\* Time.Format(time.RFC3339Nano)
Time_Format(t) ==
    LET pad(k, w) == LET d == NatToStr(k) IN Rep("0", w - Len(d)) \o d
        ns == pad(t.nsec, 9)
        last == CHOOSE i \in 1..9 : ns[i] # "0" /\ \A j \in (i + 1)..9 : ns[j] = "0"
        frac == IF t.nsec = 0 THEN <<>> ELSE <<".">> \o SubSeq(ns, 1, last)
        a == IF t.off < 0 THEN -t.off ELSE t.off
        zone == IF t.off = 0 THEN <<"Z">>
                ELSE <<IF t.off < 0 THEN "-" ELSE "+">> \o pad(a \div 60, 2)
                        \o <<":">> \o pad(a % 60, 2)
    IN  pad(t.year, 4) \o <<"-">> \o pad(t.month, 2) \o <<"-">> \o pad(t.day, 2)
            \o <<"T">> \o pad(t.hour, 2) \o <<":">> \o pad(t.min, 2) \o <<":">>
            \o pad(t.sec, 2) \o frac \o zone

\* the error of Time.MarshalJSON: RFC 3339 has years of four digits
Time_MarshalJSONError(t) ==
    IF t.year \in 0..9999 THEN NoError
    ELSE PlainError("Time.MarshalJSON: year outside of range [0,9999]")

\* the mutant: the fraction of the second is not written
Time_MarshalJSON_WholeSeconds(t) ==
    <<Quote>> \o Time_Format([t EXCEPT !.nsec = 0]) \o <<Quote>>

\* Time.MarshalJSON, the document, which is empty when there is an error
Time_MarshalJSON(t) ==
    IF Time_MarshalJSONError(t) # NoError THEN <<>>
    ELSE <<Quote>> \o Time_Format(t) \o <<Quote>>

\* Time.UnmarshalJSON as json.Unmarshal reaches it: the document must be a
\* JSON string holding a strict RFC 3339 text
Time_UnmarshalJSON(data) ==
    IF Len(data) >= 2 /\ data[1] = Quote /\ data[Len(data)] = Quote
    THEN LET r == time_Parse(RFC3339, SubSeq(data, 2, Len(data) - 1))
         IN  [ok |-> r.ok /\ r.strict, t |-> r.t]
    ELSE [ok |-> FALSE, t |-> ZeroTime]

\* a time.Time handed over by the database driver
SrcTime(t) == [t |-> "time.Time", v |-> t]

----------------------------------------------------------------------------
\* Day: the arithmetic on the day of the month of a time.Time

\* the calendar date time.Date settles on when the day is out of the month
\* m of year y (day 0 is the last day of the month before)
normalDay(y, m, d) ==
    IF d < 1 THEN
        LET pm == IF m = 1 THEN 12 ELSE m - 1
            py == IF m = 1 THEN y - 1 ELSE y
        IN  [year |-> py, month |-> pm, day |-> daysIn(pm, py) + d]
    ELSE IF d > daysIn(m, y) THEN
        [year |-> IF m = 12 THEN y + 1 ELSE y,
         month |-> IF m = 12 THEN 1 ELSE m + 1,
         day |-> d - daysIn(m, y)]
    ELSE [year |-> y, month |-> m, day |-> d]

\* the calendar date of time.Date(y, m, d, ...), m within 0..13
normalDate(y, m, d) ==
    normalDay(IF m > 12 THEN y + 1 ELSE IF m < 1 THEN y - 1 ELSE y,
              IF m > 12 THEN m - 12 ELSE IF m < 1 THEN m + 12 ELSE m,
              d)

\* the calendar date of t.AddDate(years, months, days)
Time_AddDate(t, years, months, days) ==
    normalDate(t.year + years, t.month + months, t.day + days)

Day_HasPassed(d, today) == Day_Int(d) < today.day

\* `dy` stands for the local variable day of the source
Day_DaysUntil(d, today) ==
    LET dy == Day_Int(d)
        todayDay == today.day
    IN  IF dy >= todayDay THEN dy - todayDay
        ELSE LET daysInMonth == normalDate(today.year, today.month + 1, 0).day
             IN  (daysInMonth - todayDay) + dy

\* the last step of DaysOverdue, prevMonth being today.AddDate(0, -1, 0)
daysOverdueFrom(dy, todayDay, prevMonth) ==
    LET daysInPrevMonth == normalDate(prevMonth.year, prevMonth.month + 1, 0).day
    IN  (daysInPrevMonth - dy) + todayDay

Day_DaysOverdue(d, today) ==
    LET dy == Day_Int(d)
        todayDay == today.day
    IN  IF dy <= todayDay THEN todayDay - dy
        ELSE daysOverdueFrom(dy, todayDay, Time_AddDate(today, 0, -1, 0))

\* the dates offered as today, all at midnight UTC
Todays == {
    Date(2024, 3, 15, 0, 0, 0, 0, 0),   \* the date of the tests
    Date(2024, 3, 30, 0, 0, 0, 0, 0),   \* no February 30
    Date(2023, 3, 29, 0, 0, 0, 0, 0),   \* no February 29 in 2023
    Date(2023, 3, 1, 0, 0, 0, 0, 0),    \* after a month of 28 days
    Date(2024, 1, 15, 0, 0, 0, 0, 0),   \* the month before is in 2023
    Date(2024, 12, 20, 0, 0, 0, 0, 0),  \* the month after is in 2025
    Date(2024, 2, 29, 0, 0, 0, 0, 0),   \* the last day of a leap February
    Date(2024, 5, 31, 0, 0, 0, 0, 0)}   \* no April 31

----------------------------------------------------------------------------
\* CreatedAt and UpdatedAt

LAYOUT_RFC3339_NANO_AUDIT == RFC3339Nano
LAYOUT_DB_WITH_OFFSET_COLON_AUDIT == Layout(" ", TRUE, "-07:00")
LAYOUT_DB_WITH_OFFSET_NO_COLON_AUDIT == Layout(" ", TRUE, "Z0700")
LAYOUT_DB_SPACE_NANO_OFFSET_SHORT_AUDIT == Layout(" ", TRUE, "-07")
LAYOUT_DB_NO_OFFSET_AUDIT == Layout(" ", TRUE, "")
LAYOUT_RFC3339_NO_NANO_AUDIT == RFC3339
LAYOUT_DB_SIMPLE_AUDIT == Layout(" ", FALSE, "")

commonAuditTimeLayouts == <<
    LAYOUT_RFC3339_NANO_AUDIT,
    LAYOUT_DB_WITH_OFFSET_COLON_AUDIT,
    LAYOUT_DB_WITH_OFFSET_NO_COLON_AUDIT,
    LAYOUT_DB_SPACE_NANO_OFFSET_SHORT_AUDIT,
    LAYOUT_DB_NO_OFFSET_AUDIT,
    LAYOUT_RFC3339_NO_NANO_AUDIT,
    LAYOUT_DB_SIMPLE_AUDIT >>

\* the mutant: the loop gives up after the first layout
parseAuditTime_FirstLayoutOnly(timeStr) ==
    LET r == time_Parse(commonAuditTimeLayouts[1], timeStr) IN
    IF r.ok THEN [ok |-> TRUE, t |-> r.t] ELSE [ok |-> FALSE, t |-> ZeroTime]

\* [ok, t]: the time of the first layout, in order, that parses timeStr
parseAuditTimeMultipleLayouts(timeStr) ==
    LET fits == {i \in 1..Len(commonAuditTimeLayouts) :
                    time_Parse(commonAuditTimeLayouts[i], timeStr).ok}
    IN  IF fits = {} THEN [ok |-> FALSE, t |-> ZeroTime]
        ELSE LET first == CHOOSE i \in fits : \A j \in fits : i <= j
             IN  [ok |-> TRUE, t |-> time_Parse(commonAuditTimeLayouts[first], timeStr).t]

CreatedAt_UnmarshalJSON(ca, data) ==
    IF data = JSONNull THEN
        [self |-> ca,
         err |-> NewValidationError(NoError,
             [input_json |-> CtxStr(JSONNull), target_type |-> CtxStr("CreatedAt")],
             "CreatedAt cannot be null (received JSON 'null').")]
    ELSE LET r == Time_UnmarshalJSON(data) IN
         IF ~r.ok THEN
             [self |-> ca,
              err |-> NewValidationError(PlainError("json"),
                  [input_json |-> CtxStr(data), target_type |-> CtxStr("CreatedAt")],
                  "CreatedAt must be a valid JSON timestamp.")]
         ELSE [self |-> r.t, err |-> NoError]

CreatedAt_Scan(ca, src) ==
    CASE src.t = "nil" ->
            [self |-> ca,
             err |-> NewValidationError(NoError,
                 [target_type |-> CtxStr("CreatedAt"),
                  received_value |-> CtxStr("nil_from_db")],
                 "Scanned nil value for non-nullable CreatedAt.")]
      [] src.t = "time.Time" -> [self |-> src.v, err |-> NoError]
      [] src.t = "[]uint8" ->
            LET r == parseAuditTimeMultipleLayouts(src.s) IN
            IF ~r.ok THEN
                [self |-> ca,
                 err |-> NewValidationError(PlainError("could not parse time"),
                     [input_bytes |-> CtxStr(src.s), target_type |-> CtxStr("CreatedAt")],
                     "Failed to convert []byte to CreatedAt.")]
            ELSE [self |-> r.t, err |-> NoError]
      [] src.t = "string" ->
            LET r == parseAuditTimeMultipleLayouts(src.s) IN
            IF ~r.ok THEN
                [self |-> ca,
                 err |-> NewValidationError(PlainError("could not parse time"),
                     [input_string |-> CtxStr(src.s), target_type |-> CtxStr("CreatedAt")],
                     "Failed to convert string to CreatedAt.")]
            ELSE [self |-> r.t, err |-> NoError]
      [] OTHER ->
            [self |-> ca,
             err |-> NewValidationError(NoError,
                 [received_type |-> CtxStr(TypeName(src)),
                  target_type |-> CtxStr("CreatedAt")],
                 "Incompatible type for CreatedAt.")]

UpdatedAt_UnmarshalJSON(ua, data) ==
    IF data = JSONNull THEN
        [self |-> ua,
         err |-> NewValidationError(NoError,
             [input_json |-> CtxStr(JSONNull), target_type |-> CtxStr("UpdatedAt")],
             "UpdatedAt cannot be null (received JSON 'null').")]
    ELSE LET r == Time_UnmarshalJSON(data) IN
         IF ~r.ok THEN
             [self |-> ua,
              err |-> NewValidationError(PlainError("json"),
                  [input_json |-> CtxStr(data), target_type |-> CtxStr("UpdatedAt")],
                  "UpdatedAt must be a valid JSON timestamp.")]
         ELSE [self |-> r.t, err |-> NoError]

UpdatedAt_Scan(ua, src) ==
    CASE src.t = "nil" ->
            [self |-> ua,
             err |-> NewValidationError(NoError,
                 [target_type |-> CtxStr("UpdatedAt"),
                  received_value |-> CtxStr("nil_from_db")],
                 "Scanned nil value for non-nullable UpdatedAt.")]
      [] src.t = "time.Time" -> [self |-> src.v, err |-> NoError]
      [] src.t = "[]uint8" ->
            LET r == parseAuditTimeMultipleLayouts(src.s) IN
            IF ~r.ok THEN
                [self |-> ua,
                 err |-> NewValidationError(PlainError("could not parse time"),
                     [input_bytes |-> CtxStr(src.s), target_type |-> CtxStr("UpdatedAt")],
                     "Failed to convert []byte to UpdatedAt.")]
            ELSE [self |-> r.t, err |-> NoError]
      [] src.t = "string" ->
            LET r == parseAuditTimeMultipleLayouts(src.s) IN
            IF ~r.ok THEN
                [self |-> ua,
                 err |-> NewValidationError(PlainError("could not parse time"),
                     [input_string |-> CtxStr(src.s), target_type |-> CtxStr("UpdatedAt")],
                     "Failed to convert string to UpdatedAt.")]
            ELSE [self |-> r.t, err |-> NoError]
      [] OTHER ->
            [self |-> ua,
             err |-> NewValidationError(NoError,
                 [received_type |-> CtxStr(TypeName(src)),
                  target_type |-> CtxStr("UpdatedAt")],
                 "Incompatible type for UpdatedAt.")]


----------------------------------------------------------------------------
\* NullableTime: the pair [Time, Valid] of the embedded sql.NullTime

NewNullableTime(t, valid) == [Time |-> t, Valid |-> valid]
NewNullTime == [Time |-> ZeroTime, Valid |-> FALSE]

NullableTime_TimeOrZero(nt) == IF nt.Valid THEN nt.Time ELSE ZeroTime

\* the mutant: a time that was set is always valid
NullableTime_Set_AlwaysValid(nt, t) == [Time |-> t, Valid |-> TRUE]

NullableTime_Set(nt, t) == [Time |-> t, Valid |-> ~Time_IsZero(t)]

NullableTime_SetNull(nt) == [Time |-> ZeroTime, Valid |-> FALSE]

\* the mutant: a zero time is encoded as null whatever the flag
NullableTime_MarshalJSON_ZeroAsNull(nt) ==
    IF ~nt.Valid \/ Time_IsZero(nt.Time) THEN JSONNull ELSE Time_MarshalJSON(nt.Time)

NullableTime_MarshalJSON(nt) ==
    IF ~nt.Valid THEN JSONNull ELSE Time_MarshalJSON(nt.Time)

\* the error NullableTime.MarshalJSON returns beside the document
NullableTime_MarshalJSONError(nt) ==
    IF ~nt.Valid THEN NoError ELSE Time_MarshalJSONError(nt.Time)

\* the mutant: null only lowers the flag
NullableTime_UnmarshalJSON_KeepTime(nt, data) ==
    IF data = JSONNull THEN [self |-> [nt EXCEPT !.Valid = FALSE], err |-> NoError]
    ELSE LET r == Time_UnmarshalJSON(data) IN
         IF ~r.ok THEN
             [self |-> [nt EXCEPT !.Valid = FALSE],
              err |-> NewValidationError(PlainError("json"),
                  [input_json |-> CtxStr(data), target_type |-> CtxStr("NullableTime")],
                  "NullableTime must be a valid JSON timestamp or 'null'.")]
         ELSE [self |-> [Time |-> r.t, Valid |-> TRUE], err |-> NoError]

NullableTime_UnmarshalJSON(nt, data) ==
    IF data = JSONNull THEN [self |-> NewNullTime, err |-> NoError]
    ELSE LET r == Time_UnmarshalJSON(data) IN
         IF ~r.ok THEN
             [self |-> [nt EXCEPT !.Valid = FALSE],
              err |-> NewValidationError(PlainError("json"),
                  [input_json |-> CtxStr(data), target_type |-> CtxStr("NullableTime")],
                  "NullableTime must be a valid JSON timestamp or 'null'.")]
         ELSE [self |-> [Time |-> r.t, Valid |-> TRUE], err |-> NoError]

NullableTime_IsNullable(nt) == ~nt.Valid

\* DeletedAt embeds NullableTime; now is what time.Now() returns
DeletedAt_SetNow(da, now) == [Time |-> now, Valid |-> TRUE]

NullableTime_IsZero(nt) == Time_IsZero(nt.Time)

\* sql.NullTime.Value, promoted to NullableTime
NullableTime_Value(nt) ==
    IF ~nt.Valid THEN [val |-> SrcNil, err |-> NoError]
    ELSE [val |-> SrcTime(nt.Time), err |-> NoError]

----------------------------------------------------------------------------
\* Inputs of the time types

SampleTimes == {
    ZeroTime,
    Date(1, 1, 1, 1, 0, 0, 0, 60),
    Date(2024, 5, 22, 10, 30, 0, 123456789, 0),
    Date(2023, 10, 26, 7, 0, 0, 500000000, -180),
    Date(10000, 1, 1, 0, 0, 0, 0, 0)}

\* the instants time.Now() may return: never the zero instant
NowTimes == { t \in SampleTimes : ~Time_IsZero(t) }

TimeTexts == {
    \* RFC3339Nano, UTC: 2024-05-22T10:30:00.123456789Z
    <<"2", "0", "2", "4", "-", "0", "5", "-", "2", "2", "T", "1", "0", ":", "3", "0", ":", "0", "0", ".", "1", "2", "3", "4", "5", "6", "7", "8", "9", "Z">>,
    \* RFC3339, offset: 2023-10-26T07:00:00-03:00
    <<"2", "0", "2", "3", "-", "1", "0", "-", "2", "6", "T", "0", "7", ":", "0", "0", ":", "0", "0", "-", "0", "3", ":", "0", "0">>,
    \* the zero instant: 0001-01-01T00:00:00Z
    <<"0", "0", "0", "1", "-", "0", "1", "-", "0", "1", "T", "0", "0", ":", "0", "0", ":", "0", "0", "Z">>,
    \* the zero instant read in another zone: 0001-01-01T01:00:00+01:00
    <<"0", "0", "0", "1", "-", "0", "1", "-", "0", "1", "T", "0", "1", ":", "0", "0", ":", "0", "0", "+", "0", "1", ":", "0", "0">>,
    \* RFC3339 with a comma before the fraction: 2024-05-22T10:30:00,5Z
    <<"2", "0", "2", "4", "-", "0", "5", "-", "2", "2", "T", "1", "0", ":", "3", "0", ":", "0", "0", ",", "5", "Z">>,
    \* database form, offset with colon: 2023-10-26 07:00:00.5-03:00
    <<"2", "0", "2", "3", "-", "1", "0", "-", "2", "6", " ", "0", "7", ":", "0", "0", ":", "0", "0", ".", "5", "-", "0", "3", ":", "0", "0">>,
    \* database form, offset without colon: 2023-10-26 07:00:00-0300
    <<"2", "0", "2", "3", "-", "1", "0", "-", "2", "6", " ", "0", "7", ":", "0", "0", ":", "0", "0", "-", "0", "3", "0", "0">>,
    \* database form, Z: 2023-10-26 10:00:00Z
    <<"2", "0", "2", "3", "-", "1", "0", "-", "2", "6", " ", "1", "0", ":", "0", "0", ":", "0", "0", "Z">>,
    \* database form, short offset: 2024-05-22 10:30:00.123456+00
    <<"2", "0", "2", "4", "-", "0", "5", "-", "2", "2", " ", "1", "0", ":", "3", "0", ":", "0", "0", ".", "1", "2", "3", "4", "5", "6", "+", "0", "0">>,
    \* database form, no offset, fraction: 2024-05-22 10:30:00.123456
    <<"2", "0", "2", "4", "-", "0", "5", "-", "2", "2", " ", "1", "0", ":", "3", "0", ":", "0", "0", ".", "1", "2", "3", "4", "5", "6">>,
    \* database form, no offset: 2024-05-22 10:30:00
    <<"2", "0", "2", "4", "-", "0", "5", "-", "2", "2", " ", "1", "0", ":", "3", "0", ":", "0", "0">>,
    \* one-digit hour: 2024-05-22 9:30:00
    <<"2", "0", "2", "4", "-", "0", "5", "-", "2", "2", " ", "9", ":", "3", "0", ":", "0", "0">>,
    \* T separator without zone: 2024-05-22T10:30:00
    <<"2", "0", "2", "4", "-", "0", "5", "-", "2", "2", "T", "1", "0", ":", "3", "0", ":", "0", "0">>,
    \* no such day: 2023-02-30 10:00:00
    <<"2", "0", "2", "3", "-", "0", "2", "-", "3", "0", " ", "1", "0", ":", "0", "0", ":", "0", "0">>,
    \* text after the time: 2024-05-22 10:30:00 UTC
    <<"2", "0", "2", "4", "-", "0", "5", "-", "2", "2", " ", "1", "0", ":", "3", "0", ":", "0", "0", " ", "U", "T", "C">>,
    \* date only: 2024-05-22
    <<"2", "0", "2", "4", "-", "0", "5", "-", "2", "2">>,
    \* not a time: not-a-time-string
    <<"n", "o", "t", "-", "a", "-", "t", "i", "m", "e", "-", "s", "t", "r", "i", "n", "g">>}

TimeJSONDocs ==
    { <<Quote>> \o s \o <<Quote>> : s \in TimeTexts }
        \cup {JSONNull, <<"1", "2", "3">>, <<Quote, "2">>}

TimeSources ==
    { SrcString(s) : s \in TimeTexts } \cup { SrcBytes(s) : s \in TimeTexts }
        \cup { SrcTime(t) : t \in SampleTimes } \cup {SrcNil, SrcInt(12345)}

NullableUUIDJSONDocs ==
    { JSONMarshalString(s) : s \in RawUUIDs }
        \cup {JSONNull, <<"1", "2", "3">>}

----------------------------------------------------------------------------
\* The state machine: a program holding one variable of the subject type
\* and calling its constructor, decoders, encoders and methods

Subjects == {"Phone", "Email", "Currency", "Day", "Version", "UUID", "NullableUUID",
             "NullableTime", "CreatedAt", "UpdatedAt", "MessageError"}

NoValue == [t |-> "none"]

Init ==
    /\ subject \in Subjects
    /\ phone = <<>>
    /\ email = <<>>
    /\ currency = <<>>
    /\ day = 0
    /\ version = 0
    /\ uuid = Nil
    /\ nuuid = [UUID |-> Nil, Valid |-> FALSE]
    /\ ntime = [Time |-> ZeroTime, Valid |-> FALSE]
    /\ createdAt = ZeroTime
    /\ updatedAt = ZeroTime
    /\ errs \in (IF subject = "MessageError" THEN SampleErrorHeaps ELSE {<<>>})
    /\ call = [op |-> "init"]
    /\ ret = NoValue
    /\ err = NoError
    /\ built = FALSE
    /\ incs = 0
    /\ recovered = NoError

\* a successful decode replaces a constructed value by a decoded one
AfterDecode(e) == IF e = NoError THEN FALSE ELSE built

\* phone, err = NewPhone(phoneStr)
NewPhoneCall ==
    /\ subject = "Phone"
    /\ \E phoneStr \in RawPhones :
        LET r == NewPhone(phoneStr) IN
        /\ phone' = r.val
        /\ err' = r.err
        /\ built' = (r.err = NoError)
        /\ call' = [op |-> "NewPhone", phoneStr |-> phoneStr, input |-> CtxStr(phoneStr)]
    /\ ret' = NoValue
    /\ recovered' = NoError
    /\ UNCHANGED <<subject, email, currency, day, version, uuid, nuuid, ntime, createdAt, updatedAt, errs, incs>>

\* phone = MustNewPhone(phoneStr), under a deferred recover()
MustNewPhoneCall ==
    /\ subject = "Phone"
    /\ \E phoneStr \in RawPhones :
        LET r == MustNewPhone(phoneStr) IN
        /\ phone' = IF r.panic = NoError THEN r.val ELSE phone
        /\ recovered' = r.panic
        /\ built' = IF r.panic = NoError THEN TRUE ELSE built
        /\ call' = [op |-> "MustNewPhone", phoneStr |-> phoneStr]
    /\ ret' = NoValue
    /\ err' = NoError
    /\ UNCHANGED <<subject, email, currency, day, version, uuid, nuuid, ntime, createdAt, updatedAt, errs, incs>>

\* err = phone.UnmarshalJSON(data)
Phone_UnmarshalJSONCall ==
    /\ subject = "Phone"
    /\ \E data \in PhoneJSONDocs :
        LET r == Phone_UnmarshalJSON(phone, data) IN
        /\ phone' = r.self
        /\ err' = r.err
        /\ built' = AfterDecode(r.err)
        /\ call' = [op |-> "Phone.UnmarshalJSON", data |-> data]
    /\ ret' = NoValue
    /\ recovered' = NoError
    /\ UNCHANGED <<subject, email, currency, day, version, uuid, nuuid, ntime, createdAt, updatedAt, errs, incs>>

\* err = phone.UnmarshalText(text)
Phone_UnmarshalTextCall ==
    /\ subject = "Phone"
    /\ \E text \in RawPhones :
        LET r == Phone_UnmarshalText(phone, text) IN
        /\ phone' = r.self
        /\ err' = r.err
        /\ built' = AfterDecode(r.err)
        /\ call' = [op |-> "Phone.UnmarshalText", text |-> text]
    /\ ret' = NoValue
    /\ recovered' = NoError
    /\ UNCHANGED <<subject, email, currency, day, version, uuid, nuuid, ntime, createdAt, updatedAt, errs, incs>>

\* err = phone.Scan(src)
Phone_ScanCall ==
    /\ subject = "Phone"
    /\ \E src \in PhoneSources :
        LET r == Phone_Scan(phone, src) IN
        /\ phone' = r.self
        /\ err' = r.err
        /\ built' = AfterDecode(r.err)
        /\ call' = [op |-> "Phone.Scan", src |-> src]
    /\ ret' = NoValue
    /\ recovered' = NoError
    /\ UNCHANGED <<subject, email, currency, day, version, uuid, nuuid, ntime, createdAt, updatedAt, errs, incs>>

\* var q Phone; err = q.UnmarshalJSON(phone.MarshalJSON()); ret is the decoded q
Phone_JSONRoundTrip ==
    /\ subject = "Phone"
    /\ built
    /\  LET data == Phone_MarshalJSON(phone)
            r == Phone_UnmarshalJSON(<<>>, data)
        IN
        /\ ret' = r.self
        /\ err' = r.err
        /\ call' = [op |-> "Phone.JSONRoundTrip", wire |-> data]
    /\ recovered' = NoError
    /\ UNCHANGED <<subject, phone, email, currency, day, version, uuid, nuuid, ntime, createdAt, updatedAt, errs, built, incs>>

\* var q Phone; err = q.UnmarshalText(phone.MarshalText()); ret is the decoded q
Phone_TextRoundTrip ==
    /\ subject = "Phone"
    /\ built
    /\  LET data == Phone_MarshalText(phone)
            r == Phone_UnmarshalText(<<>>, data)
        IN
        /\ ret' = r.self
        /\ err' = r.err
        /\ call' = [op |-> "Phone.TextRoundTrip", wire |-> data]
    /\ recovered' = NoError
    /\ UNCHANGED <<subject, phone, email, currency, day, version, uuid, nuuid, ntime, createdAt, updatedAt, errs, built, incs>>

\* var q Phone; err = q.Scan(phone.Value()); ret is the decoded q
Phone_DBRoundTrip ==
    /\ subject = "Phone"
    /\ built
    /\  LET v == Phone_Value(phone)
            data == v.val
            r == IF v.err # NoError THEN [self |-> <<>>, err |-> v.err]
                 ELSE Phone_Scan(<<>>, v.val)
        IN
        /\ ret' = r.self
        /\ err' = r.err
        /\ call' = [op |-> "Phone.DBRoundTrip", wire |-> data]
    /\ recovered' = NoError
    /\ UNCHANGED <<subject, phone, email, currency, day, version, uuid, nuuid, ntime, createdAt, updatedAt, errs, built, incs>>

\* email, err = NewEmail(emailStr)
NewEmailCall ==
    /\ subject = "Email"
    /\ \E emailStr \in RawEmails :
        LET r == NewEmail(emailStr) IN
        /\ email' = r.val
        /\ err' = r.err
        /\ built' = (r.err = NoError)
        /\ call' = [op |-> "NewEmail", emailStr |-> emailStr, input |-> CtxStr(emailStr)]
    /\ ret' = NoValue
    /\ recovered' = NoError
    /\ UNCHANGED <<subject, phone, currency, day, version, uuid, nuuid, ntime, createdAt, updatedAt, errs, incs>>

\* email = MustNewEmail(emailStr), under a deferred recover()
MustNewEmailCall ==
    /\ subject = "Email"
    /\ \E emailStr \in RawEmails :
        LET r == MustNewEmail(emailStr) IN
        /\ email' = IF r.panic = NoError THEN r.val ELSE email
        /\ recovered' = r.panic
        /\ built' = IF r.panic = NoError THEN TRUE ELSE built
        /\ call' = [op |-> "MustNewEmail", emailStr |-> emailStr]
    /\ ret' = NoValue
    /\ err' = NoError
    /\ UNCHANGED <<subject, phone, currency, day, version, uuid, nuuid, ntime, createdAt, updatedAt, errs, incs>>

\* err = email.UnmarshalJSON(data)
Email_UnmarshalJSONCall ==
    /\ subject = "Email"
    /\ \E data \in EmailJSONDocs :
        LET r == Email_UnmarshalJSON(email, data) IN
        /\ email' = r.self
        /\ err' = r.err
        /\ built' = AfterDecode(r.err)
        /\ call' = [op |-> "Email.UnmarshalJSON", data |-> data]
    /\ ret' = NoValue
    /\ recovered' = NoError
    /\ UNCHANGED <<subject, phone, currency, day, version, uuid, nuuid, ntime, createdAt, updatedAt, errs, incs>>

\* err = email.UnmarshalText(text)
Email_UnmarshalTextCall ==
    /\ subject = "Email"
    /\ \E text \in RawEmails :
        LET r == Email_UnmarshalText(email, text) IN
        /\ email' = r.self
        /\ err' = r.err
        /\ built' = AfterDecode(r.err)
        /\ call' = [op |-> "Email.UnmarshalText", text |-> text]
    /\ ret' = NoValue
    /\ recovered' = NoError
    /\ UNCHANGED <<subject, phone, currency, day, version, uuid, nuuid, ntime, createdAt, updatedAt, errs, incs>>

\* err = email.Scan(src)
Email_ScanCall ==
    /\ subject = "Email"
    /\ \E src \in EmailSources :
        LET r == Email_Scan(email, src) IN
        /\ email' = r.self
        /\ err' = r.err
        /\ built' = AfterDecode(r.err)
        /\ call' = [op |-> "Email.Scan", src |-> src]
    /\ ret' = NoValue
    /\ recovered' = NoError
    /\ UNCHANGED <<subject, phone, currency, day, version, uuid, nuuid, ntime, createdAt, updatedAt, errs, incs>>

\* var q Email; err = q.UnmarshalJSON(email.MarshalJSON()); ret is the decoded q
Email_JSONRoundTrip ==
    /\ subject = "Email"
    /\ built
    /\  LET data == Email_MarshalJSON(email)
            r == Email_UnmarshalJSON(<<>>, data)
        IN
        /\ ret' = r.self
        /\ err' = r.err
        /\ call' = [op |-> "Email.JSONRoundTrip", wire |-> data]
    /\ recovered' = NoError
    /\ UNCHANGED <<subject, phone, email, currency, day, version, uuid, nuuid, ntime, createdAt, updatedAt, errs, built, incs>>

\* var q Email; err = q.UnmarshalText(email.MarshalText()); ret is the decoded q
Email_TextRoundTrip ==
    /\ subject = "Email"
    /\ built
    /\  LET data == Email_MarshalText(email)
            r == Email_UnmarshalText(<<>>, data)
        IN
        /\ ret' = r.self
        /\ err' = r.err
        /\ call' = [op |-> "Email.TextRoundTrip", wire |-> data]
    /\ recovered' = NoError
    /\ UNCHANGED <<subject, phone, email, currency, day, version, uuid, nuuid, ntime, createdAt, updatedAt, errs, built, incs>>

\* var q Email; err = q.Scan(email.Value()); ret is the decoded q
Email_DBRoundTrip ==
    /\ subject = "Email"
    /\ built
    /\  LET v == Email_Value(email)
            data == v.val
            r == IF v.err # NoError THEN [self |-> <<>>, err |-> v.err]
                 ELSE Email_Scan(<<>>, v.val)
        IN
        /\ ret' = r.self
        /\ err' = r.err
        /\ call' = [op |-> "Email.DBRoundTrip", wire |-> data]
    /\ recovered' = NoError
    /\ UNCHANGED <<subject, phone, email, currency, day, version, uuid, nuuid, ntime, createdAt, updatedAt, errs, built, incs>>

\* currency, err = NewCurrency(value)
NewCurrencyCall ==
    /\ subject = "Currency"
    /\ \E value \in RawCurrencies :
        LET r == NewCurrency(value) IN
        /\ currency' = r.val
        /\ err' = r.err
        /\ built' = (r.err = NoError)
        /\ call' = [op |-> "NewCurrency", value |-> value, input |-> CtxStr(value)]
    /\ ret' = NoValue
    /\ recovered' = NoError
    /\ UNCHANGED <<subject, phone, email, day, version, uuid, nuuid, ntime, createdAt, updatedAt, errs, incs>>

\* err = currency.UnmarshalJSON(data)
Currency_UnmarshalJSONCall ==
    /\ subject = "Currency"
    /\ \E data \in CurrencyJSONDocs :
        LET r == Currency_UnmarshalJSON(currency, data) IN
        /\ currency' = r.self
        /\ err' = r.err
        /\ built' = AfterDecode(r.err)
        /\ call' = [op |-> "Currency.UnmarshalJSON", data |-> data]
    /\ ret' = NoValue
    /\ recovered' = NoError
    /\ UNCHANGED <<subject, phone, email, day, version, uuid, nuuid, ntime, createdAt, updatedAt, errs, incs>>

\* err = currency.Scan(src)
Currency_ScanCall ==
    /\ subject = "Currency"
    /\ \E src \in CurrencySources :
        LET r == Currency_Scan(currency, src) IN
        /\ currency' = r.self
        /\ err' = r.err
        /\ built' = AfterDecode(r.err)
        /\ call' = [op |-> "Currency.Scan", src |-> src]
    /\ ret' = NoValue
    /\ recovered' = NoError
    /\ UNCHANGED <<subject, phone, email, day, version, uuid, nuuid, ntime, createdAt, updatedAt, errs, incs>>

\* var q Currency; err = q.UnmarshalJSON(currency.MarshalJSON()); ret is the decoded q
Currency_JSONRoundTrip ==
    /\ subject = "Currency"
    /\ built
    /\  LET data == Currency_MarshalJSON(currency)
            r == Currency_UnmarshalJSON(<<>>, data)
        IN
        /\ ret' = r.self
        /\ err' = r.err
        /\ call' = [op |-> "Currency.JSONRoundTrip", wire |-> data]
    /\ recovered' = NoError
    /\ UNCHANGED <<subject, phone, email, currency, day, version, uuid, nuuid, ntime, createdAt, updatedAt, errs, built, incs>>

\* var q Currency; err = q.Scan(currency.Value()); ret is the decoded q
Currency_DBRoundTrip ==
    /\ subject = "Currency"
    /\ built
    /\  LET v == Currency_Value(currency)
            data == v.val
            r == IF v.err # NoError THEN [self |-> <<>>, err |-> v.err]
                 ELSE Currency_Scan(<<>>, v.val)
        IN
        /\ ret' = r.self
        /\ err' = r.err
        /\ call' = [op |-> "Currency.DBRoundTrip", wire |-> data]
    /\ recovered' = NoError
    /\ UNCHANGED <<subject, phone, email, currency, day, version, uuid, nuuid, ntime, createdAt, updatedAt, errs, built, incs>>

\* day, err = NewDay(value)
NewDayCall ==
    /\ subject = "Day"
    /\ \E value \in DayInputs :
        LET r == NewDay(value) IN
        /\ day' = r.val
        /\ err' = r.err
        /\ built' = (r.err = NoError)
        /\ call' = [op |-> "NewDay", value |-> value, input |-> CtxInt(value)]
    /\ ret' = NoValue
    /\ recovered' = NoError
    /\ UNCHANGED <<subject, phone, email, currency, version, uuid, nuuid, ntime, createdAt, updatedAt, errs, incs>>

\* err = day.UnmarshalJSON(data)
Day_UnmarshalJSONCall ==
    /\ subject = "Day"
    /\ \E data \in DayJSONDocs :
        LET r == Day_UnmarshalJSON(day, data) IN
        /\ day' = r.self
        /\ err' = r.err
        /\ built' = AfterDecode(r.err)
        /\ call' = [op |-> "Day.UnmarshalJSON", data |-> data]
    /\ ret' = NoValue
    /\ recovered' = NoError
    /\ UNCHANGED <<subject, phone, email, currency, version, uuid, nuuid, ntime, createdAt, updatedAt, errs, incs>>

\* err = day.Scan(src)
Day_ScanCall ==
    /\ subject = "Day"
    /\ \E src \in DaySources :
        LET r == Day_Scan(day, src) IN
        /\ day' = r.self
        /\ err' = r.err
        /\ built' = AfterDecode(r.err)
        /\ call' = [op |-> "Day.Scan", src |-> src]
    /\ ret' = NoValue
    /\ recovered' = NoError
    /\ UNCHANGED <<subject, phone, email, currency, version, uuid, nuuid, ntime, createdAt, updatedAt, errs, incs>>

\* var q Day; err = q.UnmarshalJSON(day.MarshalJSON()); ret is the decoded q
Day_JSONRoundTrip ==
    /\ subject = "Day"
    /\ built
    /\  LET data == Day_MarshalJSON(day)
            r == Day_UnmarshalJSON(0, data)
        IN
        /\ ret' = r.self
        /\ err' = r.err
        /\ call' = [op |-> "Day.JSONRoundTrip", wire |-> data]
    /\ recovered' = NoError
    /\ UNCHANGED <<subject, phone, email, currency, day, version, uuid, nuuid, ntime, createdAt, updatedAt, errs, built, incs>>

\* var q Day; err = q.Scan(day.Value()); ret is the decoded q
Day_DBRoundTrip ==
    /\ subject = "Day"
    /\ built
    /\  LET v == Day_Value(day)
            data == v.val
            r == IF v.err # NoError THEN [self |-> 0, err |-> v.err]
                 ELSE Day_Scan(0, v.val)
        IN
        /\ ret' = r.self
        /\ err' = r.err
        /\ call' = [op |-> "Day.DBRoundTrip", wire |-> data]
    /\ recovered' = NoError
    /\ UNCHANGED <<subject, phone, email, currency, day, version, uuid, nuuid, ntime, createdAt, updatedAt, errs, built, incs>>

\* ret = day.HasPassed(today)
Day_HasPassedCall ==
    /\ subject = "Day"
    /\ \E today \in Todays :
        /\ ret' = Day_HasPassed(day, today)
        /\ call' = [op |-> "Day.HasPassed", today |-> today]
    /\ err' = NoError
    /\ recovered' = NoError
    /\ UNCHANGED <<subject, phone, email, currency, day, version, uuid, nuuid, ntime, createdAt, updatedAt, errs, built, incs>>

\* ret = day.DaysUntil(today)
Day_DaysUntilCall ==
    /\ subject = "Day"
    /\ \E today \in Todays :
        /\ ret' = Day_DaysUntil(day, today)
        /\ call' = [op |-> "Day.DaysUntil", today |-> today]
    /\ err' = NoError
    /\ recovered' = NoError
    /\ UNCHANGED <<subject, phone, email, currency, day, version, uuid, nuuid, ntime, createdAt, updatedAt, errs, built, incs>>

\* ret = day.DaysOverdue(today)
Day_DaysOverdueCall ==
    /\ subject = "Day"
    /\ \E today \in Todays :
        /\ ret' = Day_DaysOverdue(day, today)
        /\ call' = [op |-> "Day.DaysOverdue", today |-> today]
    /\ err' = NoError
    /\ recovered' = NoError
    /\ UNCHANGED <<subject, phone, email, currency, day, version, uuid, nuuid, ntime, createdAt, updatedAt, errs, built, incs>>

\* uuid, err = ParseUUID(s)
ParseUUIDCall ==
    /\ subject = "UUID"
    /\ \E s \in RawUUIDs :
        LET r == ParseUUID(s) IN
        /\ uuid' = r.val
        /\ err' = r.err
        /\ built' = (r.err = NoError)
        /\ call' = [op |-> "ParseUUID", s |-> s, input |-> CtxStr(s)]
    /\ ret' = NoValue
    /\ recovered' = NoError
    /\ UNCHANGED <<subject, phone, email, currency, day, version, nuuid, ntime, createdAt, updatedAt, errs, incs>>

\* uuid = MustParseUUID(s), under a deferred recover()
MustParseUUIDCall ==
    /\ subject = "UUID"
    /\ \E s \in RawUUIDs :
        LET r == MustParseUUID(s) IN
        /\ uuid' = IF r.panic = NoError THEN r.val ELSE uuid
        /\ recovered' = r.panic
        /\ built' = IF r.panic = NoError THEN TRUE ELSE built
        /\ call' = [op |-> "MustParseUUID", s |-> s]
    /\ ret' = NoValue
    /\ err' = NoError
    /\ UNCHANGED <<subject, phone, email, currency, day, version, nuuid, ntime, createdAt, updatedAt, errs, incs>>

\* uuid, err = NewUUID(), g what uuid.NewV7 gave
NewUUIDCall ==
    /\ subject = "UUID"
    /\ \E g \in NewV7Outcomes :
        LET r == NewUUID(g) IN
        /\ uuid' = r.val
        /\ err' = r.err
        /\ built' = (r.err = NoError)
        /\ call' = [op |-> "NewUUID", g |-> g]
    /\ ret' = NoValue
    /\ recovered' = NoError
    /\ UNCHANGED <<subject, phone, email, currency, day, version, nuuid, ntime, createdAt, updatedAt, errs, incs>>

\* uuid = MustNewUUID(g), under a deferred recover()
MustNewUUIDCall ==
    /\ subject = "UUID"
    /\ \E g \in NewV7Outcomes :
        LET r == MustNewUUID(g) IN
        /\ uuid' = IF r.panic = NoError THEN r.val ELSE uuid
        /\ recovered' = r.panic
        /\ built' = IF r.panic = NoError THEN TRUE ELSE built
        /\ call' = [op |-> "MustNewUUID", g |-> g]
    /\ ret' = NoValue
    /\ err' = NoError
    /\ UNCHANGED <<subject, phone, email, currency, day, version, nuuid, ntime, createdAt, updatedAt, errs, incs>>

\* err = uuid.UnmarshalText(text)
UUID_UnmarshalTextCall ==
    /\ subject = "UUID"
    /\ \E text \in RawUUIDs :
        LET r == UUID_UnmarshalText(uuid, text) IN
        /\ uuid' = r.self
        /\ err' = r.err
        /\ built' = AfterDecode(r.err)
        /\ call' = [op |-> "UUID.UnmarshalText", text |-> text]
    /\ ret' = NoValue
    /\ recovered' = NoError
    /\ UNCHANGED <<subject, phone, email, currency, day, version, nuuid, ntime, createdAt, updatedAt, errs, incs>>

\* err = uuid.Scan(src)
UUID_ScanCall ==
    /\ subject = "UUID"
    /\ \E src \in UUIDSources :
        LET r == UUID_Scan(uuid, src) IN
        /\ uuid' = r.self
        /\ err' = r.err
        /\ built' = AfterDecode(r.err)
        /\ call' = [op |-> "UUID.Scan", src |-> src]
    /\ ret' = NoValue
    /\ recovered' = NoError
    /\ UNCHANGED <<subject, phone, email, currency, day, version, nuuid, ntime, createdAt, updatedAt, errs, incs>>

\* var q UUID; err = q.UnmarshalText(uuid.MarshalText()); ret is the decoded q
UUID_TextRoundTrip ==
    /\ subject = "UUID"
    /\ built
    /\  LET data == UUID_MarshalText(uuid)
            r == UUID_UnmarshalText(Nil, data)
        IN
        /\ ret' = r.self
        /\ err' = r.err
        /\ call' = [op |-> "UUID.TextRoundTrip", wire |-> data]
    /\ recovered' = NoError
    /\ UNCHANGED <<subject, phone, email, currency, day, version, uuid, nuuid, ntime, createdAt, updatedAt, errs, built, incs>>

\* var q UUID; err = q.Scan(uuid.Value()); ret is the decoded q
UUID_DBRoundTrip ==
    /\ subject = "UUID"
    /\ built
    /\  LET v == UUID_Value(uuid)
            data == v.val
            r == IF v.err # NoError THEN [self |-> Nil, err |-> v.err]
                 ELSE UUID_Scan(Nil, v.val)
        IN
        /\ ret' = r.self
        /\ err' = r.err
        /\ call' = [op |-> "UUID.DBRoundTrip", wire |-> data]
    /\ recovered' = NoError
    /\ UNCHANGED <<subject, phone, email, currency, day, version, uuid, nuuid, ntime, createdAt, updatedAt, errs, built, incs>>

\* version = NewVersion()
NewVersionCall ==
    /\ subject = "Version"
    /\ version' = NewVersion
    /\ built' = TRUE
    /\ incs' = 0
    /\ call' = [op |-> "NewVersion"]
    /\ ret' = NoValue
    /\ err' = NoError
    /\ recovered' = NoError
    /\ UNCHANGED <<subject, phone, email, currency, day, uuid, nuuid, ntime, createdAt, updatedAt, errs>>

\* version.Increment()
Version_IncrementCall ==
    /\ subject = "Version"
    /\ incs < MaxIncrements
    /\ version' = Version_Increment(version)
    /\ incs' = incs + 1
    /\ call' = [op |-> "Version.Increment"]
    /\ ret' = NoValue
    /\ err' = NoError
    /\ recovered' = NoError
    /\ UNCHANGED <<subject, phone, email, currency, day, uuid, nuuid, ntime, createdAt, updatedAt, errs, built>>

\* ret = version.Int()
Version_IntCall ==
    /\ subject = "Version"
    /\ ret' = Version_Int(version)
    /\ call' = [op |-> "Version.Int"]
    /\ err' = NoError
    /\ recovered' = NoError
    /\ UNCHANGED <<subject, phone, email, currency, day, version, uuid, nuuid, ntime, createdAt, updatedAt, errs, built, incs>>

\* ret = version.Previous()
Version_PreviousCall ==
    /\ subject = "Version"
    /\ ret' = Version_Previous(version)
    /\ call' = [op |-> "Version.Previous"]
    /\ err' = NoError
    /\ recovered' = NoError
    /\ UNCHANGED <<subject, phone, email, currency, day, version, uuid, nuuid, ntime, createdAt, updatedAt, errs, built, incs>>

\* err = version.UnmarshalJSON(data)
Version_UnmarshalJSONCall ==
    /\ subject = "Version"
    /\ \E data \in VersionJSONDocs :
        LET r == Version_UnmarshalJSON(version, data) IN
        /\ version' = r.self
        /\ err' = r.err
        /\ built' = AfterDecode(r.err)
        /\ incs' = IF r.err = NoError THEN 0 ELSE incs
        /\ call' = [op |-> "Version.UnmarshalJSON", data |-> data]
    /\ ret' = NoValue
    /\ recovered' = NoError
    /\ UNCHANGED <<subject, phone, email, currency, day, uuid, nuuid, ntime, createdAt, updatedAt, errs>>

\* err = version.Scan(src), on a build whose int has intSize bits
Version_ScanCall ==
    /\ subject = "Version"
    /\ \E src \in VersionSources, intSize \in IntSizes :
        LET r == Version_Scan(version, src, intSize) IN
        /\ version' = r.self
        /\ err' = r.err
        /\ built' = AfterDecode(r.err)
        /\ incs' = IF r.err = NoError THEN 0 ELSE incs
        /\ call' = [op |-> "Version.Scan", src |-> src, intSize |-> intSize]
    /\ ret' = NoValue
    /\ recovered' = NoError
    /\ UNCHANGED <<subject, phone, email, currency, day, uuid, nuuid, ntime, createdAt, updatedAt, errs>>

\* var q Version; err = q.UnmarshalJSON(version.MarshalJSON()); ret is the decoded q
Version_JSONRoundTrip ==
    /\ subject = "Version"
    /\ built
    /\  LET data == Version_MarshalJSON(version)
            r == Version_UnmarshalJSON(0, data)
        IN
        /\ ret' = r.self
        /\ err' = r.err
        /\ call' = [op |-> "Version.JSONRoundTrip", wire |-> data]
    /\ recovered' = NoError
    /\ UNCHANGED <<subject, phone, email, currency, day, version, uuid, nuuid, ntime, createdAt, updatedAt, errs, built, incs>>

\* var q Version; err = q.Scan(version.Value()); ret is the decoded q
Version_DBRoundTrip ==
    /\ subject = "Version"
    /\ built
    /\ \E intSize \in IntSizes :
        LET v == Version_Value(version)
            data == v.val
            r == IF v.err # NoError THEN [self |-> 0, err |-> v.err]
                 ELSE Version_Scan(0, v.val, intSize)
        IN
        /\ ret' = r.self
        /\ err' = r.err
        /\ call' = [op |-> "Version.DBRoundTrip", wire |-> data]
    /\ recovered' = NoError
    /\ UNCHANGED <<subject, phone, email, currency, day, version, uuid, nuuid, ntime, createdAt, updatedAt, errs, built, incs>>

\* var q Version; err = q.Scan(src), src at or beyond the ends of the 32-bit
\* integers; ret is q
Version_ScanFreshCall ==
    /\ subject = "Version"
    /\ \E src \in WideVersionSources, intSize \in IntSizes :
        LET r == Version_Scan(0, src, intSize) IN
        /\ ret' = r.self
        /\ err' = r.err
        /\ call' = [op |-> "Version.ScanFresh", src |-> src, intSize |-> intSize]
    /\ recovered' = NoError
    /\ UNCHANGED <<subject, phone, email, currency, day, version, uuid, nuuid, ntime, createdAt, updatedAt, errs, built, incs>>

\* nuuid = NewNullableUUID(id, valid)
NewNullableUUIDCall ==
    /\ subject = "NullableUUID"
    /\ \E id \in SampleUUIDs, valid \in BOOLEAN :
        /\ nuuid' = NewNullableUUID(id, valid)
        /\ call' = [op |-> "NewNullableUUID", id |-> id, valid |-> valid]
    /\ ret' = NoValue
    /\ err' = NoError
    /\ recovered' = NoError
    /\ UNCHANGED <<subject, phone, email, currency, day, version, uuid, ntime, createdAt, updatedAt, errs, built, incs>>

\* err = nuuid.UnmarshalJSON(data)
NullableUUID_UnmarshalJSONCall ==
    /\ subject = "NullableUUID"
    /\ \E data \in NullableUUIDJSONDocs :
        LET r == NullableUUID_UnmarshalJSON(nuuid, data) IN
        /\ nuuid' = r.self
        /\ err' = r.err
        /\ call' = [op |-> "NullableUUID.UnmarshalJSON", data |-> data]
    /\ ret' = NoValue
    /\ recovered' = NoError
    /\ UNCHANGED <<subject, phone, email, currency, day, version, uuid, ntime, createdAt, updatedAt, errs, built, incs>>

\* ret = nuuid.IsValid()
NullableUUID_IsValidCall ==
    /\ subject = "NullableUUID"
    /\ ret' = NullableUUID_IsValid(nuuid)
    /\ call' = [op |-> "NullableUUID.IsValid"]
    /\ err' = NoError
    /\ recovered' = NoError
    /\ UNCHANGED <<subject, phone, email, currency, day, version, uuid, nuuid, ntime, createdAt, updatedAt, errs, built, incs>>

\* ret = nuuid.GetUUID()
NullableUUID_GetUUIDCall ==
    /\ subject = "NullableUUID"
    /\ ret' = NullableUUID_GetUUID(nuuid)
    /\ call' = [op |-> "NullableUUID.GetUUID"]
    /\ err' = NoError
    /\ recovered' = NoError
    /\ UNCHANGED <<subject, phone, email, currency, day, version, uuid, nuuid, ntime, createdAt, updatedAt, errs, built, incs>>

\* ret = nuuid.MarshalJSON()
NullableUUID_MarshalJSONCall ==
    /\ subject = "NullableUUID"
    /\ ret' = NullableUUID_MarshalJSON(nuuid)
    /\ call' = [op |-> "NullableUUID.MarshalJSON"]
    /\ err' = NoError
    /\ recovered' = NoError
    /\ UNCHANGED <<subject, phone, email, currency, day, version, uuid, nuuid, ntime, createdAt, updatedAt, errs, built, incs>>

\* ntime = NewNullableTime(t, valid)
NewNullableTimeCall ==
    /\ subject = "NullableTime"
    /\ \E t \in SampleTimes, valid \in BOOLEAN :
        /\ ntime' = NewNullableTime(t, valid)
        /\ call' = [op |-> "NewNullableTime", t |-> t, valid |-> valid]
    /\ ret' = NoValue
    /\ err' = NoError
    /\ recovered' = NoError
    /\ UNCHANGED <<subject, phone, email, currency, day, version, uuid, nuuid, createdAt, updatedAt, errs, built, incs>>

\* ntime.Set(t)
NullableTime_SetCall ==
    /\ subject = "NullableTime"
    /\ \E t \in SampleTimes :
        /\ ntime' = NullableTime_Set(ntime, t)
        /\ call' = [op |-> "NullableTime.Set", t |-> t]
    /\ ret' = NoValue
    /\ err' = NoError
    /\ recovered' = NoError
    /\ UNCHANGED <<subject, phone, email, currency, day, version, uuid, nuuid, createdAt, updatedAt, errs, built, incs>>

\* ntime.SetNull()
NullableTime_SetNullCall ==
    /\ subject = "NullableTime"
    /\ ntime' = NullableTime_SetNull(ntime)
    /\ call' = [op |-> "NullableTime.SetNull"]
    /\ ret' = NoValue
    /\ err' = NoError
    /\ recovered' = NoError
    /\ UNCHANGED <<subject, phone, email, currency, day, version, uuid, nuuid, createdAt, updatedAt, errs, built, incs>>

\* ntime.SetNow(), ntime the NullableTime embedded in a DeletedAt
DeletedAt_SetNowCall ==
    /\ subject = "NullableTime"
    /\ \E now \in NowTimes :
        /\ ntime' = DeletedAt_SetNow(ntime, now)
        /\ call' = [op |-> "DeletedAt.SetNow", now |-> now]
    /\ ret' = NoValue
    /\ err' = NoError
    /\ recovered' = NoError
    /\ UNCHANGED <<subject, phone, email, currency, day, version, uuid, nuuid, createdAt, updatedAt, errs, built, incs>>

\* err = ntime.UnmarshalJSON(data)
NullableTime_UnmarshalJSONCall ==
    /\ subject = "NullableTime"
    /\ \E data \in TimeJSONDocs :
        LET r == NullableTime_UnmarshalJSON(ntime, data) IN
        /\ ntime' = r.self
        /\ err' = r.err
        /\ call' = [op |-> "NullableTime.UnmarshalJSON", data |-> data]
    /\ ret' = NoValue
    /\ recovered' = NoError
    /\ UNCHANGED <<subject, phone, email, currency, day, version, uuid, nuuid, createdAt, updatedAt, errs, built, incs>>

\* ret = ntime.TimeOrZero()
NullableTime_TimeOrZeroCall ==
    /\ subject = "NullableTime"
    /\ ret' = NullableTime_TimeOrZero(ntime)
    /\ call' = [op |-> "NullableTime.TimeOrZero"]
    /\ err' = NoError
    /\ recovered' = NoError
    /\ UNCHANGED <<subject, phone, email, currency, day, version, uuid, nuuid, ntime, createdAt, updatedAt, errs, built, incs>>

\* ret, err = ntime.MarshalJSON()
NullableTime_MarshalJSONCall ==
    /\ subject = "NullableTime"
    /\ ret' = NullableTime_MarshalJSON(ntime)
    /\ call' = [op |-> "NullableTime.MarshalJSON"]
    /\ err' = NullableTime_MarshalJSONError(ntime)
    /\ recovered' = NoError
    /\ UNCHANGED <<subject, phone, email, currency, day, version, uuid, nuuid, ntime, createdAt, updatedAt, errs, built, incs>>

\* data, err = ntime.MarshalJSON(); var q NullableTime; when err is nil,
\* err = q.UnmarshalJSON(data); ret is q
NullableTime_JSONRoundTrip ==
    /\ subject = "NullableTime"
    /\  LET data == NullableTime_MarshalJSON(ntime)
            failed == NullableTime_MarshalJSONError(ntime)
            r == IF failed # NoError THEN [self |-> NewNullTime, err |-> failed]
                 ELSE NullableTime_UnmarshalJSON(NewNullTime, data)
        IN
        /\ ret' = r.self
        /\ err' = r.err
        /\ call' = [op |-> "NullableTime.JSONRoundTrip", data |-> data]
    /\ recovered' = NoError
    /\ UNCHANGED <<subject, phone, email, currency, day, version, uuid, nuuid, ntime, createdAt, updatedAt, errs, built, incs>>

\* ret = ntime.IsNullable()
NullableTime_IsNullableCall ==
    /\ subject = "NullableTime"
    /\ ret' = NullableTime_IsNullable(ntime)
    /\ call' = [op |-> "NullableTime.IsNullable"]
    /\ err' = NoError
    /\ recovered' = NoError
    /\ UNCHANGED <<subject, phone, email, currency, day, version, uuid, nuuid, ntime, createdAt, updatedAt, errs, built, incs>>

\* ret = ntime.IsZero()
NullableTime_IsZeroCall ==
    /\ subject = "NullableTime"
    /\ ret' = NullableTime_IsZero(ntime)
    /\ call' = [op |-> "NullableTime.IsZero"]
    /\ err' = NoError
    /\ recovered' = NoError
    /\ UNCHANGED <<subject, phone, email, currency, day, version, uuid, nuuid, ntime, createdAt, updatedAt, errs, built, incs>>

\* ret = ntime.Value()
NullableTime_ValueCall ==
    /\ subject = "NullableTime"
    /\ ret' = NullableTime_Value(ntime).val
    /\ call' = [op |-> "NullableTime.Value"]
    /\ err' = NoError
    /\ recovered' = NoError
    /\ UNCHANGED <<subject, phone, email, currency, day, version, uuid, nuuid, ntime, createdAt, updatedAt, errs, built, incs>>

\* err = createdAt.UnmarshalJSON(data)
CreatedAt_UnmarshalJSONCall ==
    /\ subject = "CreatedAt"
    /\ \E data \in TimeJSONDocs :
        LET r == CreatedAt_UnmarshalJSON(createdAt, data) IN
        /\ createdAt' = r.self
        /\ err' = r.err
        /\ call' = [op |-> "CreatedAt.UnmarshalJSON", data |-> data]
    /\ ret' = NoValue
    /\ recovered' = NoError
    /\ UNCHANGED <<subject, phone, email, currency, day, version, uuid, nuuid, ntime, updatedAt, errs, built, incs>>

\* err = createdAt.Scan(src)
CreatedAt_ScanCall ==
    /\ subject = "CreatedAt"
    /\ \E src \in TimeSources :
        LET r == CreatedAt_Scan(createdAt, src) IN
        /\ createdAt' = r.self
        /\ err' = r.err
        /\ call' = [op |-> "CreatedAt.Scan", src |-> src]
    /\ ret' = NoValue
    /\ recovered' = NoError
    /\ UNCHANGED <<subject, phone, email, currency, day, version, uuid, nuuid, ntime, updatedAt, errs, built, incs>>

\* err = updatedAt.UnmarshalJSON(data)
UpdatedAt_UnmarshalJSONCall ==
    /\ subject = "UpdatedAt"
    /\ \E data \in TimeJSONDocs :
        LET r == UpdatedAt_UnmarshalJSON(updatedAt, data) IN
        /\ updatedAt' = r.self
        /\ err' = r.err
        /\ call' = [op |-> "UpdatedAt.UnmarshalJSON", data |-> data]
    /\ ret' = NoValue
    /\ recovered' = NoError
    /\ UNCHANGED <<subject, phone, email, currency, day, version, uuid, nuuid, ntime, createdAt, errs, built, incs>>

\* err = updatedAt.Scan(src)
UpdatedAt_ScanCall ==
    /\ subject = "UpdatedAt"
    /\ \E src \in TimeSources :
        LET r == UpdatedAt_Scan(updatedAt, src) IN
        /\ updatedAt' = r.self
        /\ err' = r.err
        /\ call' = [op |-> "UpdatedAt.Scan", src |-> src]
    /\ ret' = NoValue
    /\ recovered' = NoError
    /\ UNCHANGED <<subject, phone, email, currency, day, version, uuid, nuuid, ntime, createdAt, errs, built, incs>>

\* ret = e.WithContext(key, value), e the pointer to the object at address a
MessageError_WithContextCall ==
    /\ subject = "MessageError"
    /\ \E a \in DOMAIN errs, kv \in ContextEntries :
        /\ errs' = [errs EXCEPT ![a] = WithContext(@, kv[1], kv[2])]
        /\ ret' = [ptr |-> a]
        /\ call' = [op |-> "MessageError.WithContext", e |-> a,
                    key |-> kv[1], value |-> kv[2]]
    /\ err' = NoError
    /\ recovered' = NoError
    /\ UNCHANGED <<subject, phone, email, currency, day, version, uuid, nuuid, ntime, createdAt, updatedAt, built, incs>>

\* ret = e.HTTPStatus()
MessageError_HTTPStatusCall ==
    /\ subject = "MessageError"
    /\ \E a \in DOMAIN errs :
        /\ ret' = HTTPStatus(errs[a])
        /\ call' = [op |-> "MessageError.HTTPStatus", e |-> a]
    /\ err' = NoError
    /\ recovered' = NoError
    /\ UNCHANGED <<subject, phone, email, currency, day, version, uuid, nuuid, ntime, createdAt, updatedAt, errs, built, incs>>

\* ret = e.ToResponse()
MessageError_ToResponseCall ==
    /\ subject = "MessageError"
    /\ \E a \in DOMAIN errs :
        /\ ret' = ToResponse(errs, a)
        /\ call' = [op |-> "MessageError.ToResponse", e |-> a]
    /\ err' = NoError
    /\ recovered' = NoError
    /\ UNCHANGED <<subject, phone, email, currency, day, version, uuid, nuuid, ntime, createdAt, updatedAt, errs, built, incs>>

NextPhone ==
    \/ NewPhoneCall
    \/ MustNewPhoneCall
    \/ Phone_UnmarshalJSONCall
    \/ Phone_UnmarshalTextCall
    \/ Phone_ScanCall
    \/ Phone_JSONRoundTrip
    \/ Phone_TextRoundTrip
    \/ Phone_DBRoundTrip

NextEmail ==
    \/ NewEmailCall
    \/ MustNewEmailCall
    \/ Email_UnmarshalJSONCall
    \/ Email_UnmarshalTextCall
    \/ Email_ScanCall
    \/ Email_JSONRoundTrip
    \/ Email_TextRoundTrip
    \/ Email_DBRoundTrip

NextCurrency ==
    \/ NewCurrencyCall
    \/ Currency_UnmarshalJSONCall
    \/ Currency_ScanCall
    \/ Currency_JSONRoundTrip
    \/ Currency_DBRoundTrip

NextDay ==
    \/ NewDayCall
    \/ Day_UnmarshalJSONCall
    \/ Day_ScanCall
    \/ Day_JSONRoundTrip
    \/ Day_DBRoundTrip
    \/ Day_HasPassedCall
    \/ Day_DaysUntilCall
    \/ Day_DaysOverdueCall

NextUUID ==
    \/ ParseUUIDCall
    \/ MustParseUUIDCall
    \/ NewUUIDCall
    \/ MustNewUUIDCall
    \/ UUID_UnmarshalTextCall
    \/ UUID_ScanCall
    \/ UUID_TextRoundTrip
    \/ UUID_DBRoundTrip

NextVersion ==
    \/ NewVersionCall
    \/ Version_IncrementCall
    \/ Version_IntCall
    \/ Version_PreviousCall
    \/ Version_UnmarshalJSONCall
    \/ Version_ScanCall
    \/ Version_JSONRoundTrip
    \/ Version_DBRoundTrip
    \/ Version_ScanFreshCall

NextNullableUUID ==
    \/ NewNullableUUIDCall
    \/ NullableUUID_UnmarshalJSONCall
    \/ NullableUUID_IsValidCall
    \/ NullableUUID_GetUUIDCall
    \/ NullableUUID_MarshalJSONCall

NextNullableTime ==
    \/ NewNullableTimeCall
    \/ NullableTime_SetCall
    \/ NullableTime_SetNullCall
    \/ DeletedAt_SetNowCall
    \/ NullableTime_UnmarshalJSONCall
    \/ NullableTime_TimeOrZeroCall
    \/ NullableTime_MarshalJSONCall
    \/ NullableTime_JSONRoundTrip
    \/ NullableTime_IsNullableCall
    \/ NullableTime_IsZeroCall
    \/ NullableTime_ValueCall

NextCreatedAt ==
    \/ CreatedAt_UnmarshalJSONCall
    \/ CreatedAt_ScanCall

NextUpdatedAt ==
    \/ UpdatedAt_UnmarshalJSONCall
    \/ UpdatedAt_ScanCall

NextMessageError ==
    \/ MessageError_WithContextCall
    \/ MessageError_HTTPStatusCall
    \/ MessageError_ToResponseCall

Next ==
    \/ NextPhone
    \/ NextEmail
    \/ NextCurrency
    \/ NextDay
    \/ NextUUID
    \/ NextVersion
    \/ NextNullableUUID
    \/ NextNullableTime
    \/ NextCreatedAt
    \/ NextUpdatedAt
    \/ NextMessageError

Spec == Init /\ [][Next]_vars

\* the specifications of one primitive, or of two
InitPhone == Init /\ subject = "Phone"
SpecPhone == InitPhone /\ [][NextPhone]_vars

InitVersion == Init /\ subject = "Version"
SpecVersion == InitVersion /\ [][NextVersion]_vars

InitDayCurrency == Init /\ subject \in {"Day", "Currency"}
NextDayCurrency ==
    \/ NextDay
    \/ NextCurrency
SpecDayCurrency == InitDayCurrency /\ [][NextDayCurrency]_vars

InitUUID == Init /\ subject \in {"UUID", "NullableUUID"}
NextUUIDs ==
    \/ NextUUID
    \/ NextNullableUUID
SpecUUID == InitUUID /\ [][NextUUIDs]_vars

InitNullableTime == Init /\ subject = "NullableTime"
SpecNullableTime == InitNullableTime /\ [][NextNullableTime]_vars

\* the nullable wrappers from NewNullTime() and NewNullUUID() on, under
\* their mutators and JSON decoders only
InitWrappers == Init /\ subject \in {"NullableTime", "NullableUUID"}
NextWrappers ==
    \/ NullableTime_SetCall
    \/ NullableTime_SetNullCall
    \/ DeletedAt_SetNowCall
    \/ NullableTime_UnmarshalJSONCall
    \/ NullableUUID_UnmarshalJSONCall
SpecWrappers == InitWrappers /\ [][NextWrappers]_vars

InitAudit == Init /\ subject \in {"CreatedAt", "UpdatedAt"}
NextAudit ==
    \/ NextCreatedAt
    \/ NextUpdatedAt
SpecAudit == InitAudit /\ [][NextAudit]_vars

InitMessageError == Init /\ subject = "MessageError"
SpecMessageError == InitMessageError /\ [][NextMessageError]_vars

----------------------------------------------------------------------------
\* Properties

\* the digits of a text, in order
DigitsOf(s) == SelectSeq(s, IsDigit)
StartsWith55(s) == Len(s) >= 2 /\ s[1] = "5" /\ s[2] = "5"
IsInvalidInput(e) == e.type = "MessageError" /\ e.Code = "invalid_input"
PhoneProducers == {"NewPhone", "Phone.UnmarshalJSON", "Phone.UnmarshalText", "Phone.Scan"}

\* C1: every Phone produced by a successful NewPhone, UnmarshalJSON,
\* UnmarshalText or Scan has exactly 13 characters, all decimal digits, and
\* starts with "55"
C1_PhoneIsCanonical ==
    (subject = "Phone" /\ call.op \in PhoneProducers /\ err = NoError) =>
        /\ Len(phone) = 13
        /\ \A i \in 1..Len(phone) : phone[i] \in Digit
        /\ StartsWith55(phone)

\* a Scan of a formatted 11-digit text produced the prefixed 13-digit value
C1_Witness ==
    /\ subject = "Phone"
    /\ call.op = "Phone.Scan"
    /\ err = NoError
    /\ call.src.t = "[]uint8"
    /\ Len(DigitsOf(call.src.s)) = 11
    /\ Len(call.src.s) > 11
    /\ phone = <<"5", "5">> \o DigitsOf(call.src.s)

\* C2: for a raw input whose trimmed form is non-empty and at most 30
\* characters, with D its digits: NewPhone returns D when D has 13 digits
\* and starts with "55", returns "55" followed by D when D has 11 digits
\* and does not start with "55", and fails in every other case
C2_NewPhoneResult ==
    (subject = "Phone" /\ call.op = "NewPhone") =>
        LET trimmed == TrimSpace(call.phoneStr)
            D == DigitsOf(call.phoneStr)
        IN  (trimmed # <<>> /\ Len(trimmed) <= 30) =>
                IF Len(D) = 13 /\ StartsWith55(D)
                    THEN err = NoError /\ phone = D
                ELSE IF Len(D) = 11 /\ ~StartsWith55(D)
                    THEN err = NoError /\ phone = <<"5", "5">> \o D
                ELSE err # NoError

\* NewPhone prefixed the 11 digits of a formatted input of 30 characters
C2_Witness ==
    /\ subject = "Phone"
    /\ call.op = "NewPhone"
    /\ Len(TrimSpace(call.phoneStr)) = 30
    /\ Len(DigitsOf(call.phoneStr)) = 11
    /\ err = NoError
    /\ phone = <<"5", "5">> \o DigitsOf(call.phoneStr)

\* the digit count after the optional prefixing
CountAfterPrefixing(D) == IF Len(D) = 11 /\ ~StartsWith55(D) THEN 13 ELSE Len(D)

RejectedWithLengths(n) ==
    /\ IsInvalidInput(err)
    /\ "expected_length" \in DOMAIN err.Context
    /\ "actual_length" \in DOMAIN err.Context
    /\ err.Context["expected_length"] = CtxInt(13)
    /\ err.Context["actual_length"] = CtxInt(n)

C4_SameFromEveryEntryPoint ==
    subject = "Phone" =>
        \A s \in RawPhones :
            LET decodesS ==
                    CASE call.op = "Phone.UnmarshalText" -> call.text = s
                      [] call.op = "Phone.UnmarshalJSON" -> call.data = JSONMarshalString(s)
                      [] call.op = "Phone.Scan" ->
                            call.src = SrcString(s) \/ call.src = SrcBytes(s)
                      [] OTHER -> FALSE
            IN  decodesS =>
                    /\ (err = NoError) <=> (NewPhone(s).err = NoError)
                    /\ err = NoError => phone = NewPhone(s).val

\* the variable a round trip encodes
Held ==
    CASE subject = "Phone" -> phone
      [] subject = "Email" -> email
      [] subject = "Currency" -> currency
      [] subject = "Day" -> day
      [] subject = "Version" -> version
      [] subject = "UUID" -> uuid

IsRoundTrip == "wire" \in DOMAIN call

\* C5: for a value returned by a successful constructor (for Version,
\* NewVersion followed by Increments), decoding the output of each encoder
\* of its type into a fresh variable gives the value back, without error
C5_RoundTrip ==
    IsRoundTrip => err = NoError /\ ret = Held

\* an email with a character that JSON escapes came back from its JSON form
C5_Witness ==
    /\ subject = "Email"
    /\ call.op = "Email.JSONRoundTrip"
    /\ \E i \in 1..Len(email) : email[i] = "&"
    /\ Len(call.wire) > Len(email) + 2
    /\ err = NoError
    /\ ret = email

Constructors == {"NewEmail", "NewPhone", "ParseUUID", "NewCurrency", "NewDay"}

\* C6: every rejection by NewEmail, NewPhone, ParseUUID, NewCurrency or
\* NewDay is a MessageError of category invalid_input whose non-empty
\* context contains the original raw input
C6_RejectionsAreStructured ==
    (call.op \in Constructors /\ err # NoError) =>
        /\ IsInvalidInput(err)
        /\ DOMAIN err.Context # {}
        /\ \E k \in DOMAIN err.Context : err.Context[k] = call.input

\* C7: a Currency from a successful UnmarshalJSON or Scan is BRL, USD or
\* EUR, and a Day from a successful UnmarshalJSON or Scan is within 1..31
C7_DecodedValuesAreValid ==
    /\ (call.op \in {"Currency.UnmarshalJSON", "Currency.Scan"} /\ err = NoError)
          => currency \in {<<"B", "R", "L">>, <<"U", "S", "D">>, <<"E", "U", "R">>}
    /\ (call.op \in {"Day.UnmarshalJSON", "Day.Scan"} /\ err = NoError)
          => 1 <= day /\ day <= 31

\* s is code written in any mix of upper and lower case
SameLetters(s, code) ==
    /\ Len(s) = Len(code)
    /\ \A i \in 1..Len(code) : s[i] = code[i] \/ (s[i] \in Lower /\ UpperOf[s[i]] = code[i])

\* C8: NewDay(n) succeeds exactly when 1 <= n <= 31 and then gives Day(n),
\* otherwise ErrInvalidDay with Day(0); NewCurrency(s) succeeds exactly when
\* s is BRL, USD or EUR in any letter case and then gives the uppercase
\* code, otherwise ErrInvalidCurrency with the empty Currency
C8_NewDayNewCurrency ==
    /\ call.op = "NewDay" =>
          IF 1 <= call.value /\ call.value <= 31
          THEN err = NoError /\ day = call.value
          ELSE err = PlainError("day must be between 1 and 31") /\ day = 0
    /\ call.op = "NewCurrency" =>
          IF \E code \in {<<"B", "R", "L">>, <<"U", "S", "D">>, <<"E", "U", "R">>} :
                SameLetters(call.value, code)
          THEN /\ err = NoError
               /\ currency \in {<<"B", "R", "L">>, <<"U", "S", "D">>, <<"E", "U", "R">>}
               /\ SameLetters(call.value, currency)
          ELSE err = PlainError("invalid currency") /\ currency = <<>>

\* NewDay accepted 31
C8_Witness ==
    /\ call.op = "NewDay"
    /\ call.value = 31
    /\ err = NoError
    /\ day = 31

\* C9: Previous() returns 0 for a version of 1 or less, zero and negatives
\* included, and v-1 above 1, is never negative and leaves v unchanged
C9_Previous ==
    /\ [](call.op = "Version.Previous" =>
            /\ ret >= 0
            /\ ret = IF version <= 1 THEN 0 ELSE version - 1)
    /\ [][call'.op = "Version.Previous" => version' = version]_vars

\* Previous() of a negative version returned 0
C9_Witness ==
    /\ call.op = "Version.Previous"
    /\ version < 0
    /\ ret = 0

\* C10: from NewVersion(), under Increment and Previous calls: an Increment
\* adds exactly 1, Previous changes nothing, the version never decreases
\* and is at least 1, and after n Increments Int() is 1 + n
C10_VersionCounts ==
    /\ [](built =>
            /\ version = 1 + incs
            /\ version >= 1
            /\ call.op = "Version.Int" => ret = 1 + incs)
    /\ [][(built /\ built' /\ call'.op # "NewVersion") =>
            /\ version' >= version
            /\ call'.op = "Version.Increment" => version' = version + 1
            /\ call'.op = "Version.Previous" => version' = version]_vars

\* Int() after NewVersion and the largest number of Increments of the model
C10_Witness ==
    /\ built
    /\ call.op = "Version.Int"
    /\ incs = MaxIncrements
    /\ ret = 1 + MaxIncrements

\* C18: HTTPStatus depends on the category alone: conflict 409, invalid_input
\* 400, not_found 404, unauthorized 401, forbidden 403, internal_error 500,
\* and 500 for every other category
C18_HTTPStatusByCategory ==
    call.op = "MessageError.HTTPStatus" =>
        LET c == errs[call.e].Code IN
        ret = CASE c = "conflict" -> 409
                [] c = "invalid_input" -> 400
                [] c = "not_found" -> 404
                [] c = "unauthorized" -> 401
                [] c = "forbidden" -> 403
                [] OTHER -> 500

\* HTTPStatus of an error of a category the package does not know gave 500
C18_Witness ==
    /\ call.op = "MessageError.HTTPStatus"
    /\ errs[call.e].Code = "SOME_NEW_CODE"
    /\ ret = 500

\* resp is the projection of the error at address a: its own status,
\* message, category and context, and its children projected the same way
RECURSIVE Projects(_, _)
Projects(a, resp) ==
    LET e == errs[a] IN
    /\ resp.StatusCode = HTTPStatus(e)
    /\ resp.Message = e.Message
    /\ resp.Code = e.Code
    /\ resp.Context = e.Context
    /\ Len(resp.Details) = Len(e.Details)
    /\ \A i \in 1..Len(e.Details) : Projects(e.Details[i], resp.Details[i])

\* C19: ToResponse gives the status of HTTPStatus(), the message, category
\* and context of the error, and one detail per child error, in order, each
\* projected by the same rule at every depth
C19_ToResponseProjects ==
    call.op = "MessageError.ToResponse" => Projects(call.e, ret)

\* ToResponse of an error whose first detail has a detail of its own
C19_Witness ==
    /\ call.op = "MessageError.ToResponse"
    /\ ret.StatusCode = 409
    /\ Len(ret.Details) = 2
    /\ ret.Details[1].StatusCode = 404
    /\ Len(ret.Details[1].Details) = 1
    /\ ret.Details[1].Details[1].StatusCode = 500
    /\ ret.Details[1].Details[1].Context = errs[1].Context

\* C20: WithContext(key, value) sets Context[key] to value, keeps the other
\* entries, leaves Err, Message, Code and Details as they were, returns the
\* pointer it was called on and touches no other error, after any calls
C20_WithContextFrame ==
    [][call'.op = "MessageError.WithContext" =>
        LET a == call'.e
            before == errs[a]
            after == errs'[a]
        IN  /\ DOMAIN after.Context = DOMAIN before.Context \cup {call'.key}
            /\ after.Context[call'.key] = call'.value
            /\ \A k \in DOMAIN before.Context \ {call'.key} :
                    after.Context[k] = before.Context[k]
            /\ after.Err = before.Err
            /\ after.Message = before.Message
            /\ after.Code = before.Code
            /\ after.Details = before.Details
            /\ ret' = [ptr |-> a]
            /\ DOMAIN errs' = DOMAIN errs
            /\ \A b \in DOMAIN errs \ {a} : errs'[b] = errs[b]]_vars

\* a third WithContext overwrote key1 of an error that has details, a cause
\* and a context of its own
C20_Witness ==
    /\ call.op = "MessageError.WithContext"
    /\ call.value = CtxStr("newValue1")
    /\ DOMAIN errs[call.e].Context = {"form", "key1", "key2"}
    /\ errs[call.e].Context["key1"] = CtxStr("newValue1")
    /\ errs[call.e].Details = <<1, 2>>
    /\ errs[call.e].Err # NoError
    /\ ret = [ptr |-> call.e]

\* C14: IsValid() is true exactly when the flag is true and the identifier
\* is not Nil; GetUUID returns ok only when IsValid() is true, and
\* MarshalJSON emits a token other than null only when IsValid() is true
C14_ReadersAgreeWithIsValid ==
    /\ call.op = "NullableUUID.IsValid" => (ret <=> (nuuid.Valid /\ nuuid.UUID # Nil))
    /\ call.op = "NullableUUID.GetUUID" => (ret.ok => NullableUUID_IsValid(nuuid))
    /\ call.op = "NullableUUID.MarshalJSON" =>
            (ret # JSONNull => NullableUUID_IsValid(nuuid))

\* the canonical text of the all-zero identifier
ZeroUUIDText ==
    Rep("0", 8) \o <<"-">> \o Rep("0", 4) \o <<"-">> \o Rep("0", 4) \o <<"-">>
        \o Rep("0", 4) \o <<"-">> \o Rep("0", 12)

\* C15: ParseUUID, UnmarshalText and Scan of the all-zero canonical text,
\* and Scan(nil), succeed and give Nil; Value() of Nil is the nil storage
\* value and Value() of any other UUID is its canonical text
C15_NilAsymmetry ==
    /\ (call.op = "ParseUUID" /\ call.s = ZeroUUIDText)
            => err = NoError /\ uuid = Nil /\ UUID_IsNil(uuid)
    /\ (call.op = "UUID.UnmarshalText" /\ call.text = ZeroUUIDText)
            => err = NoError /\ uuid = Nil
    /\ (call.op = "UUID.Scan" /\ call.src \in {SrcString(ZeroUUIDText),
                                                SrcBytes(ZeroUUIDText), SrcNil})
            => err = NoError /\ uuid = Nil
    /\ call.op = "UUID.DBRoundTrip" =>
            call.wire = IF uuid = Rep("0", 32) THEN SrcNil
                        ELSE SrcString(UUID_String(uuid))

\* Value() of the Nil a successful ParseUUID returned was the nil storage
\* value, and scanning it back gave Nil
C15_Witness ==
    /\ subject = "UUID"
    /\ call.op = "UUID.DBRoundTrip"
    /\ uuid = Nil
    /\ call.wire = SrcNil
    /\ err = NoError
    /\ ret = Nil

\* C11: decoding the JSON token null succeeds for NullableTime and
\* NullableUUID and leaves the pair cleared (Valid false, zero instant / Nil);
\* for CreatedAt, UpdatedAt and Version it fails with a MessageError of
\* category invalid_input
C11_NullDecode ==
    /\ (call.op = "NullableTime.UnmarshalJSON" /\ call.data = JSONNull)
            => (err = NoError /\ ntime = [Time |-> ZeroTime, Valid |-> FALSE])
    /\ (call.op = "NullableUUID.UnmarshalJSON" /\ call.data = JSONNull)
            => (err = NoError /\ nuuid = [UUID |-> Nil, Valid |-> FALSE])
    /\ (call.op \in {"CreatedAt.UnmarshalJSON", "UpdatedAt.UnmarshalJSON",
                     "Version.UnmarshalJSON"} /\ call.data = JSONNull)
            => (err.type = "MessageError" /\ err.Code = CodeInvalid)

\* null was decoded into a NullableTime
C11_Witness ==
    /\ call.op = "NullableTime.UnmarshalJSON"
    /\ call.data = JSONNull
    /\ err = NoError
    /\ ~ntime.Valid
    /\ Time_IsZero(ntime.Time)

\* null was refused by a CreatedAt, which kept its instant
C11_WitnessRefused ==
    /\ call.op = "CreatedAt.UnmarshalJSON"
    /\ call.data = JSONNull
    /\ err.type = "MessageError"
    /\ err.Code = CodeInvalid
    /\ createdAt = ZeroTime

\* C12: after Set(t) the stored instant is t and Valid is true exactly when
\* t is not the zero instant; after SetNull() the stored instant is the zero
\* instant and Valid is false
C12_SetAndSetNull ==
    /\ call.op = "NullableTime.Set" =>
            /\ ntime.Time = call.t
            /\ ntime.Valid <=> ~Time_IsZero(call.t)
    /\ call.op = "NullableTime.SetNull" =>
            ntime = [Time |-> ZeroTime, Valid |-> FALSE]

\* Set was given the zero instant written in another zone: the instant is
\* kept and the flag is down
C12_Witness ==
    /\ call.op = "NullableTime.Set"
    /\ call.t = Date(1, 1, 1, 1, 0, 0, 0, 60)
    /\ ntime.Time = call.t
    /\ ~ntime.Valid

\* C13: a NullableTime built with Valid = true and the zero instant reports
\* IsZero() true and IsNullable() false and encodes to a JSON timestamp, not
\* null; a NullableTime with Valid = false reports IsNullable() true,
\* TimeOrZero() the zero instant, and encodes to JSON null and to the nil
\* storage value
C13_NoValueVersusZeroInstant ==
    /\ (ntime.Valid /\ Time_IsZero(ntime.Time)) =>
            /\ call.op = "NullableTime.IsZero" => ret = TRUE
            /\ call.op = "NullableTime.IsNullable" => ret = FALSE
            /\ call.op = "NullableTime.MarshalJSON" =>
                    (ret # JSONNull /\ Time_UnmarshalJSON(ret).ok
                        /\ Time_IsZero(Time_UnmarshalJSON(ret).t))
    /\ ~ntime.Valid =>
            /\ call.op = "NullableTime.IsNullable" => ret = TRUE
            /\ call.op = "NullableTime.TimeOrZero" => ret = ZeroTime
            /\ call.op = "NullableTime.MarshalJSON" => ret = JSONNull
            /\ call.op = "NullableTime.Value" => (ret = SrcNil /\ err = NoError)

\* the pair (zero instant, Valid = true) was encoded to a JSON timestamp
C13_Witness ==
    /\ call.op = "NullableTime.MarshalJSON"
    /\ ntime = [Time |-> ZeroTime, Valid |-> TRUE]
    /\ ret # JSONNull
    /\ Time_UnmarshalJSON(ret).ok

\* the layouts of commonAuditTimeLayouts, by position, that parse s
MatchingLayouts(s) ==
    {i \in 1..Len(commonAuditTimeLayouts) : time_Parse(commonAuditTimeLayouts[i], s).ok}

\* the instant the audit time holds after the call
ScannedAuditTime == IF call.op = "CreatedAt.Scan" THEN createdAt ELSE updatedAt

\* C16: CreatedAt.Scan and UpdatedAt.Scan of a text source store the instant
\* parsed by the first layout of commonAuditTimeLayouts, in order, that
\* matches; when none matches they fail with invalid_input and the input is
\* in the context; a native instant is stored as is; nil is rejected with
\* invalid_input
C16_ScanTriesLayoutsInOrder ==
    call.op \in {"CreatedAt.Scan", "UpdatedAt.Scan"} =>
        /\ call.src.t \in {"string", "[]uint8"} =>
            /\ \A i \in MatchingLayouts(call.src.s) :
                    (\A j \in 1..(i - 1) : j \notin MatchingLayouts(call.src.s))
                        => /\ err = NoError
                           /\ ScannedAuditTime =
                                time_Parse(commonAuditTimeLayouts[i], call.src.s).t
            /\ MatchingLayouts(call.src.s) = {} =>
                    /\ err.type = "MessageError"
                    /\ err.Code = CodeInvalid
                    /\ IF call.src.t = "string"
                       THEN err.Context.input_string = CtxStr(call.src.s)
                       ELSE err.Context.input_bytes = CtxStr(call.src.s)
        /\ call.src.t = "time.Time" =>
                (err = NoError /\ ScannedAuditTime = call.src.v)
        /\ call.src.t = "nil" =>
                (err.type = "MessageError" /\ err.Code = CodeInvalid)

\* a text that only the fifth and the seventh layout parse (2024-05-22
\* 10:30:00) was scanned into an UpdatedAt
C16_Witness ==
    /\ call.op = "UpdatedAt.Scan"
    /\ call.src.t = "[]uint8"
    /\ MatchingLayouts(call.src.s) = {5, 7}
    /\ err = NoError
    /\ updatedAt = Date(2024, 5, 22, 10, 30, 0, 0, 0)

\* a text no layout parses was refused, the input in the context
C16_WitnessNoLayout ==
    /\ call.op = "CreatedAt.Scan"
    /\ call.src.t = "string"
    /\ MatchingLayouts(call.src.s) = {}
    /\ err.type = "MessageError"
    /\ err.Context.input_string = CtxStr(call.src.s)

\* the primitive a Scan call was made on, and what the same Scan gives for
\* another source on the value the primitive holds now
ScanOps ==
    {"Email.Scan", "Phone.Scan", "UUID.Scan", "Currency.Scan", "Day.Scan",
     "Version.Scan", "CreatedAt.Scan", "UpdatedAt.Scan"}

ScanOutcome(op, src) ==
    CASE op = "Email.Scan" -> Email_Scan(email, src)
      [] op = "Phone.Scan" -> Phone_Scan(phone, src)
      [] op = "UUID.Scan" -> UUID_Scan(uuid, src)
      [] op = "Currency.Scan" -> Currency_Scan(currency, src)
      [] op = "Day.Scan" -> Day_Scan(day, src)
      [] op = "Version.Scan" -> Version_Scan(version, src, call.intSize)
      [] op = "CreatedAt.Scan" -> CreatedAt_Scan(createdAt, src)
      [] op = "UpdatedAt.Scan" -> UpdatedAt_Scan(updatedAt, src)

\* the value the primitive of a Scan call holds now
ScannedValue(op) ==
    CASE op = "Email.Scan" -> email
      [] op = "Phone.Scan" -> phone
      [] op = "UUID.Scan" -> uuid
      [] op = "Currency.Scan" -> currency
      [] op = "Day.Scan" -> day
      [] op = "Version.Scan" -> version
      [] op = "CreatedAt.Scan" -> createdAt
      [] op = "UpdatedAt.Scan" -> updatedAt

\* the same text carried by the other of the two forms
OtherTextForm(src) ==
    IF src.t = "string" THEN SrcBytes(src.s) ELSE SrcString(src.s)

\* the error is a MessageError whose context names the type
ContextNamesType(e, name) ==
    /\ e.type = "MessageError"
    /\ \/ "received_type" \in DOMAIN e.Context /\ e.Context.received_type = CtxStr(name)
       \/ "source_type" \in DOMAIN e.Context /\ e.Context.source_type = CtxStr(name)

\* C17: for the Scan of every primitive, a string source and a []byte source
\* with the same text are both accepted with the same value or both
\* rejected, and a source of an unsupported type (an int here) is rejected
\* with an error whose context holds the name of the received type
C17_ScanTextFormsAgree ==
    call.op \in ScanOps =>
        /\ call.src.t \in {"string", "[]uint8"} =>
            LET other == ScanOutcome(call.op, OtherTextForm(call.src)) IN
            IF err = NoError
            THEN other.err = NoError /\ other.self = ScannedValue(call.op)
            ELSE other.err # NoError
        /\ call.src.t = "int" =>
            (err # NoError /\ ContextNamesType(err, "int"))

MustOps == {"MustNewEmail", "MustNewPhone", "MustParseUUID", "MustNewUUID"}

\* what the fallible constructor of a Must call gives for the call's argument
FallibleOf(c) ==
    CASE c.op = "MustNewEmail" -> NewEmail(c.emailStr)
      [] c.op = "MustNewPhone" -> NewPhone(c.phoneStr)
      [] c.op = "MustParseUUID" -> ParseUUID(c.s)
      [] c.op = "MustNewUUID" -> NewUUID(c.g)

\* the variable a Must call assigns, given the three candidates
MustTarget(op, e, p, u) ==
    CASE op = "MustNewEmail" -> e
      [] op = "MustNewPhone" -> p
      [] OTHER -> u

\* C21: a Must constructor returns exactly the value of its fallible
\* constructor when that succeeds; otherwise it panics with the fallible
\* constructor's error, a MessageError, and returns nothing, so the variable
\* being assigned keeps its value
C21_MustConstructors ==
    [][call'.op \in MustOps =>
        IF FallibleOf(call').err = NoError
        THEN /\ recovered' = NoError
             /\ MustTarget(call'.op, email', phone', uuid') = FallibleOf(call').val
        ELSE /\ recovered' = FallibleOf(call').err
             /\ recovered'.type = "MessageError"
             /\ MustTarget(call'.op, email', phone', uuid')
                    = MustTarget(call'.op, email, phone, uuid)]_vars

\* MustNewPhone panicked with an invalid_input MessageError while the
\* variable held a Phone built before
C21_Witness ==
    /\ call.op = "MustNewPhone"
    /\ recovered # NoError
    /\ recovered.type = "MessageError"
    /\ recovered.Code = CodeInvalid
    /\ phone # <<>>
    /\ built

\* MustNewUUID panicked with the internal error of NewUUID
C21_WitnessInternal ==
    /\ call.op = "MustNewUUID"
    /\ recovered # NoError
    /\ recovered.Code = CodeInternal

\* the number of days of the month before today's
DaysInMonthBefore(today) ==
    IF today.month = 1 THEN daysIn(12, today.year - 1)
    ELSE daysIn(today.month - 1, today.year)

\* C22: with t the day of the month of today, HasPassed is true exactly when
\* d < t; DaysUntil is d - t when d >= t and (days in today's month - t) + d
\* otherwise; DaysOverdue is t - d when d <= t and (days in the month before
\* today's - d) + t otherwise
C22_DayWraparound ==
    /\ call.op = "Day.HasPassed" => (ret <=> day < call.today.day)
    /\ call.op = "Day.DaysUntil" =>
            ret = IF day >= call.today.day THEN day - call.today.day
                  ELSE (daysIn(call.today.month, call.today.year) - call.today.day) + day
    /\ call.op = "Day.DaysOverdue" =>
            ret = IF day <= call.today.day THEN call.today.day - day
                  ELSE (DaysInMonthBefore(call.today) - day) + call.today.day

\* the two examples of the tests: Day(10).DaysUntil(2024-03-15) = 26 and
\* Day(20).DaysOverdue(2024-03-15) = 24
C22_ExampleUntil ==
    /\ call.op = "Day.DaysUntil" /\ day = 10
    /\ call.today = Date(2024, 3, 15, 0, 0, 0, 0, 0)
    /\ ret = 26

C22_ExampleOverdue ==
    /\ call.op = "Day.DaysOverdue" /\ day = 20
    /\ call.today = Date(2024, 3, 15, 0, 0, 0, 0, 0)
    /\ ret = 24

\* C28: for a Day d within 1..31 and any date today, DaysUntil and
\* DaysOverdue are not negative, and each is 0 exactly when d is today's day
\* of the month
C28_DayDistancesNonNegative ==
    (call.op \in {"Day.DaysUntil", "Day.DaysOverdue"} /\ day \in 1..31) =>
        /\ ret >= 0
        /\ ret = 0 <=> day = call.today.day

\* the raw text an entry point of Email was given, when it was given one
EmailEntryPoints ==
    {"NewEmail", "Email.UnmarshalJSON", "Email.UnmarshalText", "Email.Scan"}

HasRawEmail(c) ==
    /\ c.op \in EmailEntryPoints
    /\ c.op = "Email.Scan" => c.src.t \in {"string", "[]uint8"}
    /\ c.op = "Email.UnmarshalJSON" => JSONUnmarshalString(c.data).ok

RawEmailOf(c) ==
    CASE c.op = "NewEmail" -> c.emailStr
      [] c.op = "Email.UnmarshalText" -> c.text
      [] c.op = "Email.Scan" -> c.src.s
      [] c.op = "Email.UnmarshalJSON" -> JSONUnmarshalString(c.data).s

\* the entry points that accept the raw text s
EmailAcceptedBy(s) ==
    { op \in EmailEntryPoints \cup {"Email.Scan []byte"} :
        CASE op = "NewEmail" -> NewEmail(s).err = NoError
          [] op = "Email.UnmarshalText" -> Email_UnmarshalText(<<>>, s).err = NoError
          [] op = "Email.Scan" -> Email_Scan(<<>>, SrcString(s)).err = NoError
          [] op = "Email.Scan []byte" -> Email_Scan(<<>>, SrcBytes(s)).err = NoError
          [] op = "Email.UnmarshalJSON" ->
                Email_UnmarshalJSON(<<>>, JSONMarshalString(s)).err = NoError }

\* C23: an Email produced by a successful NewEmail, UnmarshalJSON,
\* UnmarshalText or Scan is the trimmed and lowercased raw input, is not
\* empty, has at most 254 characters and matches the grammar; the raw input
\* itself is not what is stored; and a raw text is accepted by all of the
\* entry points or by none
C23_EmailIsNormalized ==
    HasRawEmail(call) =>
        /\ err = NoError =>
              /\ email = ToLower(TrimSpace(RawEmailOf(call)))
              /\ email # <<>>
              /\ RuneCountInString(email) <= MaxEmailLength
              /\ MatchEmail(email)
        /\ EmailAcceptedBy(RawEmailOf(call)) =
              IF err = NoError
              THEN EmailEntryPoints \cup {"Email.Scan []byte"} ELSE {}

\* a padded raw text in upper case was scanned and stored in another form
C23_Witness ==
    /\ call.op = "Email.Scan" /\ HasRawEmail(call)
    /\ err = NoError
    /\ email # call.src.s
    /\ Len(email) < Len(call.src.s)
    /\ \E j \in 1..Len(call.src.s) : call.src.s[j] \in Upper

\* an address of exactly 254 characters was accepted from a JSON document
C23_WitnessLongest ==
    /\ call.op = "Email.UnmarshalJSON" /\ err = NoError
    /\ Len(email) = MaxEmailLength

\* the characters of s between its first and its last character that is not
\* a blank, counted
TrimmedCharacters(s) ==
    LET inked == { j \in 1..Len(s) : ~IsSpace(s[j]) } IN
    IF inked = {} THEN 0
    ELSE (CHOOSE j \in inked : \A k \in inked : k <= j)
            - (CHOOSE j \in inked : \A k \in inked : k >= j) + 1

EmptyPhoneMessage == "Phone number cannot be empty."
LongPhoneMessage == "Raw phone input exceeds maximum length."

\* C24: NewPhone reports an input that is blank after trimming as empty,
\* whatever its length; it rejects as too long an input whose trimmed form
\* has more than 30 characters (not bytes), whatever its digits; only an
\* input that passed both checks is stripped of non-digits and validated
C24_NewPhoneCheckOrder ==
    call.op = "NewPhone" =>
        LET n == TrimmedCharacters(call.phoneStr) IN
        /\ n = 0 => err # NoError /\ err.Message = EmptyPhoneMessage
        /\ n > MaxRawPhoneInputLength =>
              err # NoError /\ err.Message = LongPhoneMessage
        /\ (n > 0 /\ n <= MaxRawPhoneInputLength) =>
              \/ err = NoError
              \/ err.Message \notin {EmptyPhoneMessage, LongPhoneMessage}

\* a text of more than 30 characters after trimming whose digits form a
\* valid number of 13 digits was rejected as too long
C24_Witness ==
    /\ call.op = "NewPhone"
    /\ TrimmedCharacters(call.phoneStr) > MaxRawPhoneInputLength
    /\ validateAndPrefixNormalizedPhone(normalizePhone(call.phoneStr), call.phoneStr).err = NoError
    /\ err # NoError /\ err.Message = LongPhoneMessage

\* blanks only, more than 30 of them, were reported as empty
C24_WitnessBlank ==
    /\ call.op = "NewPhone"
    /\ Len(call.phoneStr) > MaxRawPhoneInputLength
    /\ err # NoError /\ err.Message = EmptyPhoneMessage

\* a text of 30 characters and more than 30 bytes was accepted
C24_WitnessWide ==
    /\ call.op = "NewPhone"
    /\ ByteLen(call.phoneStr) > MaxRawPhoneInputLength
    /\ err = NoError

\* C25: from NewNullTime() and NewNullUUID() on, under Set, SetNull, SetNow
\* and UnmarshalJSON, failed decodes included, a wrapper whose Valid is
\* false holds the zero instant, respectively the Nil identifier
C25_FlagAndValueConsistent ==
    /\ ~ntime.Valid => Time_IsZero(ntime.Time)
    /\ ~nuuid.Valid => nuuid.UUID = Nil

\* the decimal text of an int64 source, and the int64 source of a decimal text
DecimalText(src) ==
    IF IsWide(src) THEN (IF src.neg THEN <<"-">> ELSE <<>>) \o src.digits
    ELSE Itoa(src.n)

IsDecimalText(s) ==
    LET digits == IF s # <<>> /\ Head(s) = "-" THEN Tail(s) ELSE s IN
    /\ digits # <<>>
    /\ AllDigits(digits)
    /\ Head(digits) = "0" => s = <<"0">>

Int64OfText(s) ==
    LET neg == Head(s) = "-"
        digits == IF neg THEN Tail(s) ELSE s
    IN  IF InInt32Range(digits, neg) THEN SrcInt64(DigitsToInt(digits, neg))
        ELSE SrcInt64Digits(digits, neg)

\* the calls of Version.Scan, on the variable and on a fresh Version
VersionScanOps == {"Version.Scan", "Version.ScanFresh"}

\* both forms of one integer are accepted and store the same Version, or
\* both are rejected
FormsAgree(mine, other) ==
    /\ (mine.err = NoError) <=> (other.err = NoError)
    /\ mine.err = NoError => mine.self = other.self

\* C26: Version.Scan accepts an integer as an int64 source exactly when it
\* accepts the []byte of its decimal text, and stores the same Version from
\* both; a nil source and a source of any other type are rejected with
\* invalid_input and leave the receiver as it was
C26_ScanFormsOfVersionAgree ==
    [][call'.op \in VersionScanOps =>
         LET src == call'.src
             before == IF call'.op = "Version.Scan" THEN version ELSE 0
             mine == [self |-> IF call'.op = "Version.Scan" THEN version' ELSE ret',
                      err |-> err']
         IN  /\ src.t = "int64" =>
                   /\ FormsAgree(mine, Version_Scan(before, SrcBytes(DecimalText(src)), call'.intSize))
                   /\ err' = NoError => mine.self = Int64Value(src)
             /\ (src.t = "[]uint8" /\ IsDecimalText(src.s)) =>
                   FormsAgree(mine, Version_Scan(before, Int64OfText(src.s), call'.intSize))
             /\ src.t \notin {"int64", "[]uint8"} =>
                   /\ err'.type = "MessageError"
                   /\ err'.Code = CodeInvalid
                   /\ mine.self = before]_vars

\* the same property on builds whose int has 32 bits only
C26_OnBuildsOf32Bits ==
    [][(call'.op \in VersionScanOps /\ call'.intSize = 32) =>
         LET src == call'.src
             before == IF call'.op = "Version.Scan" THEN version ELSE 0
             mine == [self |-> IF call'.op = "Version.Scan" THEN version' ELSE ret',
                      err |-> err']
         IN  /\ src.t = "int64" =>
                   FormsAgree(mine, Version_Scan(before, SrcBytes(DecimalText(src)), 32))
             /\ (src.t = "[]uint8" /\ IsDecimalText(src.s)) =>
                   FormsAgree(mine, Version_Scan(before, Int64OfText(src.s), 32))]_vars

\* on a build whose int has 64 bits an int64 beyond the 32-bit integers was
\* accepted while the []byte of its decimal text is rejected
C26_Diverges ==
    /\ call.op = "Version.ScanFresh"
    /\ call.intSize = 64
    /\ call.src.t = "int64"
    /\ err = NoError
    /\ Version_Scan(0, SrcBytes(DecimalText(call.src)), 64).err # NoError

\* the decoders of the non-nullable primitives Email, Phone, UUID, Version,
\* CreatedAt and UpdatedAt
DecodeOps ==
    {"Email.UnmarshalJSON", "Email.UnmarshalText", "Email.Scan",
     "Phone.UnmarshalJSON", "Phone.UnmarshalText", "Phone.Scan",
     "UUID.UnmarshalText", "UUID.Scan",
     "Version.UnmarshalJSON", "Version.Scan",
     "CreatedAt.UnmarshalJSON", "CreatedAt.Scan",
     "UpdatedAt.UnmarshalJSON", "UpdatedAt.Scan"}

\* C27: when UnmarshalJSON, UnmarshalText or Scan of Email, Phone, UUID,
\* Version, CreatedAt or UpdatedAt returns an error, the receiver holds the
\* value it held before the call
C27_FailedDecodeKeepsTarget ==
    [][(call'.op \in DecodeOps /\ err' # NoError) =>
          UNCHANGED <<email, phone, uuid, version, createdAt, updatedAt>>]_vars

\* a decoder failed on a receiver that held a value other than the zero
\* value of its type
C27_Witness ==
    /\ call.op \in DecodeOps
    /\ err # NoError
    /\ \/ call.op = "Version.UnmarshalJSON" /\ version > 0
       \/ call.op = "Email.Scan" /\ email # <<>>
       \/ call.op = "UUID.UnmarshalText" /\ uuid # Nil

C27_WitnessAudit ==
    /\ call.op \in {"CreatedAt.Scan", "UpdatedAt.UnmarshalJSON"}
    /\ err # NoError
    /\ ~Time_IsZero(createdAt) \/ ~Time_IsZero(updatedAt)

\* the causes an error may wrap: none, a plain error, another MessageError
SampleCauses ==
    {NoError, PlainError("db connection failed"), PlainError("timeout"),
     NewMessageError(NoError, "inner", CodeNotFound, <<>>)}

\* the heap with the wrapped cause of every error replaced
WithCauses(heap, causes) ==
    [a \in DOMAIN heap |-> [heap[a] EXCEPT !.Err = causes[a]]]

\* C29: ToResponse does not show the wrapped cause: errors that agree in
\* Message, Code, Context and Details at every depth and differ in the Err
\* they wrap, at any depth, have the same ToResponse
C29_ToResponseHidesCause ==
    call.op = "MessageError.ToResponse" =>
        \A causes \in [DOMAIN errs -> SampleCauses] :
            ToResponse(WithCauses(errs, causes), call.e) = ret

\* ToResponse of an error that wraps no cause and has, two levels down, a
\* detail that wraps one
C29_Witness ==
    /\ call.op = "MessageError.ToResponse"
    /\ errs[call.e].Err = NoError
    /\ errs[call.e].Details # <<>>
    /\ \E i \in 1..Len(errs[call.e].Details) :
          LET d == errs[errs[call.e].Details[i]] IN
          /\ d.Details # <<>>
          /\ errs[d.Details[1]].Err # NoError
    /\ ToResponse(WithCauses(errs, [a \in DOMAIN errs |-> NoError]), call.e) = ret

\* what the readers see of a round trip: the decode succeeded, the flag and
\* the instant of TimeOrZero() are those of the NullableTime encoded, and a
\* pair without a value went over the wire as null and came back cleared
RoundTripPreserves ==
    /\ err = NoError
    /\ ret.Valid = ntime.Valid
    /\ Time_Equal(NullableTime_TimeOrZero(ret), NullableTime_TimeOrZero(ntime))
    /\ ~ntime.Valid => (call.data = JSONNull /\ ret = NewNullTime)

C30_WitnessNull ==
    /\ call.op = "NullableTime.JSONRoundTrip"
    /\ ~ntime.Valid /\ ~Time_IsZero(ntime.Time)
    /\ ret = NewNullTime

\* a valid instant of the year 10000 could not be encoded
C30_WitnessFarYear ==
    /\ call.op = "NullableTime.JSONRoundTrip"
    /\ ntime.Valid /\ ntime.Time.year > 9999
    /\ err # NoError

====
